---- MODULE Spec2Model ----
(***************************************************************************)
(* Model of the network-transport core of Biosurf:                         *)
(*   src/src/connection_pool.rs  ConnectionPool, ConnectionGuard            *)
(* The pool is modelled as a set of caller tasks that run get_connection   *)
(* and drop their guards, the detached release tasks a drop spawns, the    *)
(* periodic cleanup, close_all_connections and a clock.                    *)
(*   src/src/dns.rs  DnsResolver: query, resolve_ip and the wire codec     *)
(* The resolver is modelled on its own (DnsSpec), with reply datagrams     *)
(* drawn from a set of byte buffers, and the decoder on its own            *)
(* (CodecSpec), applied to every prefix of a set of messages.              *)
(***************************************************************************)
EXTENDS Integers, Sequences, FiniteSets, Bags, TLC

\* ------------------------------------------------------------------ bounds
NumTasks == 2
MaxTime == 2
MaxStreams == 2
MaxPermits == 2
IdleTimeout == 1
ConnectionTimeout == 1
MaxClock == 6
MaxSent == 2

Tasks == 1..NumTasks

\* ConnectionKey { scheme, host, port }: derived Eq/Hash, exact comparison.
Schemes == {"http", "https", "ftp"}
Hosts == {"a"}
Ports == {80}
ConnectionKey == [scheme : Schemes, host : Hosts, port : Ports]

\* the key of a task that is in no call and holds no guard
NoKey == CHOOSE k \in ConnectionKey : TRUE

\* the task that holds the pool lock; NoTask when the lock is free
NoTask == 0
\* stream_ref of a task that holds no guard
NoStream == 0

VARIABLES
    connections,        \* inner.connections: ConnectionKey -> Vec<entry>, present keys only
    total_connections,  \* inner.total_connections
    max_connections,    \* inner.max_connections, the semaphore's size
    permits,            \* permits available in the semaphore
    waiters,            \* the semaphore's queue of suspended acquire() calls, oldest first
    lock,               \* holder of the pool lock (inner)
    now,                \* the clock read by Instant::now()
    next_stream,        \* identity of the next stream the transport hands out
    released,           \* the release tasks spawned by dropped guards and not yet run (bag of keys)
    pc,                 \* where each caller task is
    key,                \* the key of the task's current call or guard
    stream_ref,         \* the entry (stream identity) the task's guard wraps
    started,            \* when the task's connect attempt began
    result,             \* outcome of the task's last get_connection
    stats,              \* the PoolStats get_stats() has just returned, <<>> when none
    cache,              \* DnsResolver.cache: cache key -> DnsCacheEntry, present keys only
    clock,              \* the clock read by SystemTime::now()
    sent,               \* the datagrams the resolver's socket has sent
    last,               \* the resolver call that returned last, with what it returned
    dns_server,         \* DnsResolver.dns_server: where queries are sent
    data,               \* the buffer given to parse_response
    parsed,             \* what parse_response made of it, <<>> before the call
    encoded             \* the last call of create_query with the bytes it returned, <<>> when none

poolVars == <<connections, total_connections, max_connections, permits, waiters, lock,
              now, next_stream, released, pc, key, stream_ref, started, result, stats>>

resolverVars == <<cache, clock, sent, last, dns_server>>

codecVars == <<data, parsed, encoded>>

dnsVars == <<resolverVars, codecVars>>

vars == <<poolVars, dnsVars>>

\* ------------------------------------------------------------------ helpers

\* ConnectionPoolEntry { stream, created_at, last_used, in_use }; the stream is
\* its identity, created_at is never read.
NewEntry(id, t) == [id |-> id, in_use |-> TRUE, last_used |-> t]

\* entry.last_used.elapsed()
Elapsed(e, t) == t - e.last_used

\* usize::saturating_sub
SaturatingSub(a, b) == IF a >= b THEN a - b ELSE 0

\* the entry list of a key, empty when the key is absent
EntriesOf(conns, k) == IF k \in DOMAIN conns THEN conns[k] ELSE <<>>

\* mutant of IsReusable: the scan does not look at the age of an idle entry
IsReusable_AnyAge(e, t) == ~e.in_use

\* index of the first idle, non-stale entry (the scan of get_connection), 0 if none
IsReusable(e, t) == ~e.in_use /\ Elapsed(e, t) < IdleTimeout

FirstReusable(entries, t) ==
    IF \E i \in 1..Len(entries) : IsReusable(entries[i], t)
    THEN CHOOSE i \in 1..Len(entries) :
            /\ IsReusable(entries[i], t)
            /\ \A j \in 1..(i - 1) : ~IsReusable(entries[j], t)
    ELSE 0

\* mutant of FirstInUse: the scan runs from the back of the list
FirstInUse_Last(entries) ==
    IF \E i \in 1..Len(entries) : entries[i].in_use
    THEN CHOOSE i \in 1..Len(entries) :
            /\ entries[i].in_use
            /\ \A j \in (i + 1)..Len(entries) : ~entries[j].in_use
    ELSE 0

\* index of the first entry marked in_use (the scan of the release task), 0 if none
FirstInUse(entries) ==
    IF \E i \in 1..Len(entries) : entries[i].in_use
    THEN CHOOSE i \in 1..Len(entries) :
            /\ entries[i].in_use
            /\ \A j \in 1..(i - 1) : ~entries[j].in_use
    ELSE 0

\* mutant of Keeps: the comparison with idle_timeout is off by one
Keeps_OffByOne(e, t) == e.in_use \/ Elapsed(e, t) <= IdleTimeout

\* entries.retain(|entry| entry.in_use || (now - entry.last_used) < idle_timeout)
Keeps(e, t) == e.in_use \/ Elapsed(e, t) < IdleTimeout

\* mutant of Retain: the entries that are kept come out in reverse order
Retain_Reversed(entries, t) ==
    [i \in 1..Len(SelectSeq(entries, LAMBDA e : Keeps(e, t))) |->
        SelectSeq(entries, LAMBDA e : Keeps(e, t))
            [Len(SelectSeq(entries, LAMBDA e : Keeps(e, t))) + 1 - i]]

\* Vec::retain: the entries that satisfy the predicate, in their order
Retain(entries, t) == SelectSeq(entries, LAMBDA e : Keeps(e, t))

\* sum of the lengths of all per-key lists
RECURSIVE SumLen(_, _)
SumLen(conns, ks) ==
    IF ks = {} THEN 0
    ELSE LET k == CHOOSE x \in ks : TRUE
         IN Len(conns[k]) + SumLen(conns, ks \ {k})

EntryCount(conns) == SumLen(conns, DOMAIN conns)

\* the match on the scheme inside the connect block
ValidScheme(s) == s \in {"http", "https"}

\* mutant of ConnectInner: the match has no arm for an unsupported scheme
ConnectInner_NoSchemeCheck(s, outcome) == outcome

ConnectInner(s, outcome) ==
    IF ValidScheme(s) THEN outcome ELSE "InvalidScheme"

\* tokio::time::timeout around a block that has no await point: the block runs to
\* completion in its first poll, and Timeout::poll returns a ready value before it
\* looks at the deadline.
TimeoutResult(elapsed, inner) == inner

\* HashMap::new()
EmptyMap == [k \in {} |-> <<>>]

\* the map without the keys in ks (HashMap::remove)
WithoutKeys(conns, ks) == [k \in (DOMAIN conns) \ ks |-> conns[k]]

\* mutant of Push: the entry is put in front of the list
Push_Front(conns, k, e) ==
    [x \in (DOMAIN conns) \cup {k} |->
        IF x = k THEN <<e>> \o EntriesOf(conns, k) ELSE conns[x]]

\* connections.entry(key).or_insert_with(Vec::new).push(entry)
Push(conns, k, e) ==
    [x \in (DOMAIN conns) \cup {k} |->
        IF x = k THEN Append(EntriesOf(conns, k), e) ELSE conns[x]]

\* the list with entry i marked in_use = b and last_used = t
Mark(entries, i, b, t) ==
    [entries EXCEPT ![i] = [@ EXCEPT !.in_use = b, !.last_used = t]]

\* ------------------------------------------------------------------ initial state

\* mutant of WithConfig: the semaphore is sized one above max_connections
WithConfig_OversizedSemaphore(m) ==
    /\ max_connections = m
    /\ permits = m + 1
    /\ waiters = <<>>
    /\ connections = EmptyMap
    /\ total_connections = 0
    /\ lock = NoTask
    /\ now = 0
    /\ next_stream = 1
    /\ released = EmptyBag
    /\ pc = [t \in Tasks |-> "idle"]
    /\ key = [t \in Tasks |-> NoKey]
    /\ stream_ref = [t \in Tasks |-> NoStream]
    /\ started = [t \in Tasks |-> 0]
    /\ result = [t \in Tasks |-> "none"]
    /\ stats = <<>>

\* ConnectionPool::with_config(.., max_connections = m, ..)
WithConfig(m) ==
    /\ max_connections = m
    /\ permits = m
    /\ waiters = <<>>
    /\ connections = EmptyMap
    /\ total_connections = 0
    /\ lock = NoTask
    /\ now = 0
    /\ next_stream = 1
    /\ released = EmptyBag
    /\ pc = [t \in Tasks |-> "idle"]
    /\ key = [t \in Tasks |-> NoKey]
    /\ stream_ref = [t \in Tasks |-> NoStream]
    /\ started = [t \in Tasks |-> 0]
    /\ result = [t \in Tasks |-> "none"]
    /\ stats = <<>>

\* no resolver call has returned yet
NoCall == [op |-> "none", domain |-> <<>>, type |-> "none", a |-> "none", aaaa |-> "none",
           reply |-> <<>>, reply6 |-> <<>>, outcome |-> "none", records |-> <<>>, ip |-> <<>>,
           server |-> ""]

\* const DNS_PORT
DNS_PORT == 53

\* the SocketAddr that format!("{}:{}", dns_server, DNS_PORT) resolves to
SocketAddr(dns_server_name) == [ip |-> dns_server_name, port |-> DNS_PORT]

\* the server the resolver is constructed with
DefaultServer == "8.8.8.8"

\* DnsResolver::new: an empty cache and the server's address
ResolverNew ==
    /\ cache = EmptyMap
    /\ clock = 0
    /\ sent = <<>>
    /\ last = NoCall
    /\ dns_server = SocketAddr(DefaultServer)

\* no buffer is being decoded
CodecIdle ==
    /\ data = <<>>
    /\ parsed = <<>>
    /\ encoded = <<>>

Init ==
    /\ \E m \in 1..MaxPermits : WithConfig(m)
    /\ ResolverNew
    /\ CodecIdle

\* ------------------------------------------------------------------ get_connection

\* a caller enters get_connection and waits on semaphore.acquire()
GetConnection(t) ==
    /\ pc[t] \in {"idle", "failed"}
    /\ \E k \in ConnectionKey : key' = [key EXCEPT ![t] = k]
    /\ pc' = [pc EXCEPT ![t] = "waiting"]
    /\ result' = [result EXCEPT ![t] = "none"]
    /\ stream_ref' = [stream_ref EXCEPT ![t] = NoStream]
    /\ waiters' = Append(waiters, t)
    /\ stats' = <<>>
    /\ UNCHANGED dnsVars
    /\ UNCHANGED <<connections, total_connections, max_connections, permits, lock,
                   now, next_stream, released, started>>

\* mutant of Acquire: the call goes on without waiting for a permit
Acquire_NoWait(t) ==
    /\ pc[t] = "waiting"
    /\ waiters # <<>> /\ Head(waiters) = t
    /\ permits' = IF permits > 0 THEN permits - 1 ELSE permits
    /\ waiters' = Tail(waiters)
    /\ pc' = [pc EXCEPT ![t] = "acquired"]
    /\ stats' = <<>>
    /\ UNCHANGED dnsVars
    /\ UNCHANGED <<connections, total_connections, max_connections, lock, now,
                   next_stream, released, key, stream_ref, started, result>>

\* semaphore.acquire() returns a permit: tokio's Semaphore serves its waiters in
\* the order they asked
Acquire(t) ==
    /\ pc[t] = "waiting"
    /\ waiters # <<>> /\ Head(waiters) = t
    /\ permits > 0
    /\ permits' = permits - 1
    /\ waiters' = Tail(waiters)
    /\ pc' = [pc EXCEPT ![t] = "acquired"]
    /\ stats' = <<>>
    /\ UNCHANGED dnsVars
    /\ UNCHANGED <<connections, total_connections, max_connections, lock, now,
                   next_stream, released, key, stream_ref, started, result>>

\* the scan under the pool lock finds an idle entry: the guard is returned
ScanHit(t) ==
    /\ pc[t] = "acquired"
    /\ lock = NoTask
    /\ LET entries == EntriesOf(connections, key[t])
           i == FirstReusable(entries, now)
       IN /\ i # 0
          /\ connections' = [connections EXCEPT ![key[t]] = Mark(entries, i, TRUE, now)]
          /\ stream_ref' = [stream_ref EXCEPT ![t] = entries[i].id]
    /\ pc' = [pc EXCEPT ![t] = "holding"]
    /\ result' = [result EXCEPT ![t] = "guard"]
    /\ stats' = <<>>
    /\ UNCHANGED dnsVars
    /\ UNCHANGED <<waiters, total_connections, max_connections, permits, lock, now,
                   next_stream, released, key, started>>

\* the scan finds nothing: the call goes on to resolve the host
ScanMiss(t) ==
    /\ pc[t] = "acquired"
    /\ lock = NoTask
    /\ FirstReusable(EntriesOf(connections, key[t]), now) = 0
    /\ pc' = [pc EXCEPT ![t] = "resolving"]
    /\ stats' = <<>>
    /\ UNCHANGED dnsVars
    /\ UNCHANGED <<waiters, connections, total_connections, max_connections, permits, lock,
                   now, next_stream, released, key, stream_ref, started, result>>

\* mutant of Fail: the error return keeps the permit
Fail_KeepsPermit(t, err) ==
    /\ pc' = [pc EXCEPT ![t] = "failed"]
    /\ result' = [result EXCEPT ![t] = err]
    /\ permits' = permits

\* the error return of get_connection: the permit is a local and is dropped
Fail(t, err) ==
    /\ pc' = [pc EXCEPT ![t] = "failed"]
    /\ result' = [result EXCEPT ![t] = err]
    /\ permits' = permits + 1

\* spawn_blocking(resolve_ip) returns an address
ResolveOk(t) ==
    /\ pc[t] = "resolving"
    /\ pc' = [pc EXCEPT ![t] = "connecting"]
    /\ started' = [started EXCEPT ![t] = now]
    /\ stats' = <<>>
    /\ UNCHANGED dnsVars
    /\ UNCHANGED <<waiters, connections, total_connections, max_connections, permits, lock,
                   now, next_stream, released, key, stream_ref, result>>

\* spawn_blocking(resolve_ip) returns an error
ResolveFail(t) ==
    /\ pc[t] = "resolving"
    /\ Fail(t, "DnsError")
    /\ stats' = <<>>
    /\ UNCHANGED dnsVars
    /\ UNCHANGED <<waiters, connections, total_connections, max_connections, lock, now,
                   next_stream, released, key, stream_ref, started>>

\* the connect block under timeout(connection_timeout, ..) yields a stream
ConnectOk(t) ==
    /\ pc[t] = "connecting"
    /\ next_stream <= MaxStreams
    /\ TimeoutResult(now - started[t], ConnectInner(key[t].scheme, "ok")) = "ok"
    /\ stream_ref' = [stream_ref EXCEPT ![t] = next_stream]
    /\ next_stream' = next_stream + 1
    /\ pc' = [pc EXCEPT ![t] = "appending"]
    /\ started' = [started EXCEPT ![t] = 0]
    /\ stats' = <<>>
    /\ UNCHANGED dnsVars
    /\ UNCHANGED <<waiters, connections, total_connections, max_connections, permits, lock,
                   now, released, key, result>>

\* the connect block under timeout(connection_timeout, ..) yields an error
ConnectFail(t) ==
    /\ pc[t] = "connecting"
    /\ \E outcome \in {"ok", "TransportError"} :
          LET r == TimeoutResult(now - started[t], ConnectInner(key[t].scheme, outcome))
          IN /\ r # "ok"
             /\ Fail(t, r)
    /\ started' = [started EXCEPT ![t] = 0]
    /\ stats' = <<>>
    /\ UNCHANGED dnsVars
    /\ UNCHANGED <<waiters, connections, total_connections, max_connections, lock, now,
                   next_stream, released, key, stream_ref>>

\* the block that adds the new connection: lock, total_connections += 1
AppendCount(t) ==
    /\ pc[t] = "appending"
    /\ lock = NoTask
    /\ lock' = t
    /\ total_connections' = total_connections + 1
    /\ pc' = [pc EXCEPT ![t] = "pushing"]
    /\ stats' = <<>>
    /\ UNCHANGED dnsVars
    /\ UNCHANGED <<waiters, connections, max_connections, permits, now, next_stream,
                   released, key, stream_ref, started, result>>

\* the block that adds the new connection: push the entry, unlock
AppendPush(t) ==
    /\ pc[t] = "pushing"
    /\ lock = t
    /\ connections' = Push(connections, key[t], NewEntry(stream_ref[t], now))
    /\ lock' = NoTask
    /\ pc' = [pc EXCEPT ![t] = "refetch"]
    /\ stats' = <<>>
    /\ UNCHANGED dnsVars
    /\ UNCHANGED <<waiters, total_connections, max_connections, permits, now, next_stream,
                   released, key, stream_ref, started, result>>

\* the second lock: connections.get_mut(&key).unwrap(), entries.last_mut().unwrap()
RefetchOk(t) ==
    /\ pc[t] = "refetch"
    /\ lock = NoTask
    /\ EntriesOf(connections, key[t]) # <<>>
    /\ LET entries == connections[key[t]]
       IN stream_ref' = [stream_ref EXCEPT ![t] = entries[Len(entries)].id]
    /\ pc' = [pc EXCEPT ![t] = "holding"]
    /\ result' = [result EXCEPT ![t] = "guard"]
    /\ stats' = <<>>
    /\ UNCHANGED dnsVars
    /\ UNCHANGED <<waiters, connections, total_connections, max_connections, permits, lock,
                   now, next_stream, released, key, started>>

\* the second lock finds the key gone: unwrap() on None aborts the task, and the
\* unwinding drops the permit
RefetchPanic(t) ==
    /\ pc[t] = "refetch"
    /\ lock = NoTask
    /\ EntriesOf(connections, key[t]) = <<>>
    /\ pc' = [pc EXCEPT ![t] = "panicked"]
    /\ result' = [result EXCEPT ![t] = "panic"]
    /\ stream_ref' = [stream_ref EXCEPT ![t] = NoStream]
    /\ permits' = permits + 1
    /\ stats' = <<>>
    /\ UNCHANGED dnsVars
    /\ UNCHANGED <<waiters, connections, total_connections, max_connections, lock, now,
                   next_stream, released, key, started>>

\* ------------------------------------------------------------------ ConnectionGuard

\* mutant of DropSpawn: the flip is applied inside drop, before the permit goes back
DropSpawn_Inline(t) ==
    /\ pc[t] = "holding"
    /\ lock = NoTask
    /\ connections' =
          IF key[t] \in DOMAIN connections /\ FirstInUse(connections[key[t]]) # 0
          THEN [connections EXCEPT ![key[t]] = Mark(@, FirstInUse(@), FALSE, now)]
          ELSE connections
    /\ pc' = [pc EXCEPT ![t] = "dropping"]
    /\ stats' = <<>>
    /\ UNCHANGED dnsVars
    /\ UNCHANGED <<waiters, released, total_connections, max_connections, permits, lock,
                   now, next_stream, key, stream_ref, started, result>>

\* Drop for ConnectionGuard, first half: tokio::spawn of the release task
DropSpawn(t) ==
    /\ pc[t] = "holding"
    /\ released' = released (+) SetToBag({key[t]})
    /\ pc' = [pc EXCEPT ![t] = "dropping"]
    /\ stats' = <<>>
    /\ UNCHANGED dnsVars
    /\ UNCHANGED <<waiters, connections, total_connections, max_connections, permits, lock,
                   now, next_stream, key, stream_ref, started, result>>

\* mutant of DropPermit: the guard is dropped but its permit is kept
DropPermit_KeepsPermit(t) ==
    /\ pc[t] = "dropping"
    /\ permits' = permits
    /\ pc' = [pc EXCEPT ![t] = "idle"]
    /\ stream_ref' = [stream_ref EXCEPT ![t] = NoStream]
    /\ key' = [key EXCEPT ![t] = NoKey]
    /\ result' = [result EXCEPT ![t] = "none"]
    /\ stats' = <<>>
    /\ UNCHANGED dnsVars
    /\ UNCHANGED <<waiters, connections, total_connections, max_connections, lock, now,
                   next_stream, released, started>>

\* Drop for ConnectionGuard, second half: drop(self.permit.take())
DropPermit(t) ==
    /\ pc[t] = "dropping"
    /\ permits' = permits + 1
    /\ pc' = [pc EXCEPT ![t] = "idle"]
    /\ stream_ref' = [stream_ref EXCEPT ![t] = NoStream]
    /\ key' = [key EXCEPT ![t] = NoKey]
    /\ result' = [result EXCEPT ![t] = "none"]
    /\ stats' = <<>>
    /\ UNCHANGED dnsVars
    /\ UNCHANGED <<waiters, connections, total_connections, max_connections, lock, now,
                   next_stream, released, started>>

\* mutant of Flip: the release task looks at the head of the list only
Flip_HeadOnly(entries, t) ==
    IF entries # <<>> /\ entries[1].in_use THEN Mark(entries, 1, FALSE, t)
    ELSE entries

\* mutant of Flip: the scan does not break, every in_use entry is flipped
Flip_NoBreak(entries, t) ==
    [i \in 1..Len(entries) |->
        IF entries[i].in_use THEN [entries[i] EXCEPT !.in_use = FALSE, !.last_used = t]
        ELSE entries[i]]

\* the entry list after the release task's scan: the first in_use entry is flipped
Flip(entries, t) ==
    IF FirstInUse(entries) = 0 THEN entries
    ELSE Mark(entries, FirstInUse(entries), FALSE, t)

\* a spawned release task runs under the pool lock
ReleaseTask(k) ==
    /\ BagIn(k, released)
    /\ lock = NoTask
    /\ released' = released (-) SetToBag({k})
    /\ connections' = IF k \in DOMAIN connections
                      THEN [connections EXCEPT ![k] = Flip(connections[k], now)]
                      ELSE connections
    /\ stats' = <<>>
    /\ UNCHANGED dnsVars
    /\ UNCHANGED <<waiters, total_connections, max_connections, permits, lock, now,
                   next_stream, pc, key, stream_ref, started, result>>

\* ------------------------------------------------------------------ maintenance

\* mutant of Cleaned: the keys whose lists became empty are left in the map
Cleaned_KeepsEmptyKeys(conns, t) == [k \in DOMAIN conns |-> Retain(conns[k], t)]

\* the map after cleanup's retain pass and the removal of the empty lists
Cleaned(conns, t) ==
    LET kept == [k \in DOMAIN conns |-> Retain(conns[k], t)]
    IN WithoutKeys(kept, {k \in DOMAIN kept : kept[k] = <<>>})

\* mutant of Removed: cleanup does not count what it removes
Removed_NotCounted(conns, t) == 0

\* the number of entries cleanup's retain pass removes
Removed(conns, t) ==
    EntryCount(conns) - EntryCount([k \in DOMAIN conns |-> Retain(conns[k], t)])

\* mutant of Cleanup: the pass runs without taking the pool lock
Cleanup_NoLock ==
    /\ connections' = Cleaned(connections, now)
    /\ total_connections' = SaturatingSub(total_connections, Removed(connections, now))
    /\ stats' = <<>>
    /\ UNCHANGED dnsVars
    /\ UNCHANGED <<waiters, max_connections, permits, lock, now, next_stream, released, pc,
                   key, stream_ref, started, result>>

\* cleanup(): one pass over the table under the pool lock
Cleanup ==
    /\ lock = NoTask
    /\ connections' = Cleaned(connections, now)
    /\ total_connections' = SaturatingSub(total_connections, Removed(connections, now))
    /\ stats' = <<>>
    /\ UNCHANGED dnsVars
    /\ UNCHANGED <<waiters, max_connections, permits, lock, now, next_stream, released, pc,
                   key, stream_ref, started, result>>

\* mutant of CloseAllConnections: the counter is not reset
CloseAllConnections_KeepsCount ==
    /\ lock = NoTask
    /\ connections' = EmptyMap
    /\ stats' = <<>>
    /\ UNCHANGED dnsVars
    /\ UNCHANGED <<waiters, total_connections, max_connections, permits, lock, now,
                   next_stream, released, pc, key, stream_ref, started, result>>

CloseAllConnections ==
    /\ lock = NoTask
    /\ connections' = EmptyMap
    /\ total_connections' = 0
    /\ stats' = <<>>
    /\ UNCHANGED dnsVars
    /\ UNCHANGED <<waiters, max_connections, permits, lock, now, next_stream, released, pc,
                   key, stream_ref, started, result>>

\* the number of entries marked in_use
InUseCount(conns) ==
    EntryCount([k \in DOMAIN conns |-> SelectSeq(conns[k], LAMBDA e : e.in_use)])

\* the number of entries not marked in_use
IdleCount(conns) ==
    EntryCount([k \in DOMAIN conns |-> SelectSeq(conns[k], LAMBDA e : ~e.in_use)])

\* the PoolStats get_stats builds under the pool lock
PoolStats(conns, total, maxc) ==
    [total_connections |-> total,
     total_idle |-> IdleCount(conns),
     total_in_use |-> InUseCount(conns),
     max_connections |-> maxc,
     idle_timeout |-> IdleTimeout,
     connection_count |-> Cardinality(DOMAIN conns)]

\* mutant of GetStats: the counts are read without the pool lock
GetStats_NoLock ==
    /\ stats' = <<PoolStats(connections, total_connections, max_connections)>>
    /\ UNCHANGED dnsVars
    /\ UNCHANGED <<waiters, connections, total_connections, max_connections, permits,
                   lock, now, next_stream, released, pc, key, stream_ref, started, result>>

\* get_stats(): the snapshot is handed to the caller, who has it until the next
\* step of the pool
GetStats ==
    /\ lock = NoTask
    /\ stats' = <<PoolStats(connections, total_connections, max_connections)>>
    /\ UNCHANGED dnsVars
    /\ UNCHANGED <<waiters, connections, total_connections, max_connections, permits,
                   lock, now, next_stream, released, pc, key, stream_ref, started, result>>

\* time passes
Tick ==
    /\ now < MaxTime
    /\ now' = now + 1
    /\ stats' = <<>>
    /\ UNCHANGED dnsVars
    /\ UNCHANGED <<waiters, connections, total_connections, max_connections, permits, lock,
                   next_stream, released, pc, key, stream_ref, started, result>>

\* ------------------------------------------------------------------ specification

Next ==
    \/ \E t \in Tasks : GetConnection(t)
    \/ \E t \in Tasks : Acquire(t)
    \/ \E t \in Tasks : ScanHit(t)
    \/ \E t \in Tasks : ScanMiss(t)
    \/ \E t \in Tasks : ResolveOk(t)
    \/ \E t \in Tasks : ResolveFail(t)
    \/ \E t \in Tasks : ConnectOk(t)
    \/ \E t \in Tasks : ConnectFail(t)
    \/ \E t \in Tasks : AppendCount(t)
    \/ \E t \in Tasks : AppendPush(t)
    \/ \E t \in Tasks : RefetchOk(t)
    \/ \E t \in Tasks : RefetchPanic(t)
    \/ \E t \in Tasks : DropSpawn(t)
    \/ \E t \in Tasks : DropPermit(t)
    \/ \E k \in ConnectionKey : ReleaseTask(k)
    \/ Cleanup
    \/ CloseAllConnections
    \/ GetStats
    \/ Tick

Spec == Init /\ [][Next]_vars

\* the steps of a call or of a drop that wait for nothing but the scheduler, the
\* resolver or the transport
Proceed(t) ==
    \/ ResolveOk(t) \/ ResolveFail(t)
    \/ ConnectOk(t) \/ ConnectFail(t)
    \/ AppendPush(t)
    \/ DropPermit(t)

\* the steps that wait for the pool lock
Locked(t) ==
    \/ ScanHit(t) \/ ScanMiss(t)
    \/ AppendCount(t)
    \/ RefetchOk(t) \/ RefetchPanic(t)

\* Fair scheduling: a runnable task is eventually polled, the resolver and the
\* transport answer, and the waiters of the semaphore and of the pool lock (both
\* queue their waiters) are eventually served.
Fairness ==
    /\ \A t \in Tasks : WF_vars(Proceed(t))
    /\ \A t \in Tasks : SF_vars(Locked(t))
    /\ \A t \in Tasks : WF_vars(Acquire(t))
    /\ \A k \in ConnectionKey : SF_vars(ReleaseTask(k))

\* a pool configured with max_connections = 1
LiveInit == Init /\ max_connections = 1

LiveSpec == LiveInit /\ [][Next]_vars /\ Fairness

\* ------------------------------------------------------------------ properties

\* the task holds a guard it has not begun to drop
HoldsGuard(t) == pc[t] = "holding"

\* the task holds an admission permit: from acquire() to the error return or to
\* the drop of the guard's permit
HoldsPermit(t) ==
    pc[t] \in {"acquired", "resolving", "connecting", "appending", "pushing",
               "refetch", "holding", "dropping"}

\* the task is suspended on the semaphore
Suspended(t) == pc[t] = "waiting"

\* C1: no pool entry is held by two unreleased guards at the same time: two
\* tasks that both hold a guard wrap different entries.
C1_ExclusiveCheckout ==
    \A t1, t2 \in Tasks :
        (t1 # t2 /\ HoldsGuard(t1) /\ HoldsGuard(t2))
            => stream_ref[t1] # stream_ref[t2]

\* C2: whenever the pool lock is free, total_connections equals the sum of the
\* lengths of all per-key entry lists.
C2_TotalMatchesLists ==
    lock = NoTask => total_connections = EntryCount(connections)

\* C2 witness: the lock is free, two streams were added under two keys, one of
\* them has been removed since and the other is still counted
C2_Witness ==
    /\ lock = NoTask
    /\ next_stream = 3
    /\ \A t \in Tasks : pc[t] \in {"idle", "holding"}
    /\ \A t \in Tasks : pc[t] = "holding" => key[t].scheme = "https"
    /\ \E k \in DOMAIN connections : k.scheme = "http"
    /\ total_connections = 1

\* C3: the number of callers that hold an admission permit never exceeds
\* max_connections.
C3_PermitHoldersBounded ==
    Cardinality({t \in Tasks : HoldsPermit(t)}) <= max_connections

\* C3 witness: more callers than permits, every permit held, one caller suspended
C3_Witness ==
    /\ NumTasks > max_connections
    /\ Cardinality({t \in Tasks : HoldsPermit(t)}) = max_connections
    /\ \E t \in Tasks : Suspended(t)

\* C4: while all permits are held, a caller suspended on the semaphore gets
\* neither a guard nor an error: in every step taken while no permit is
\* available it stays suspended.
C4_ExhaustionSuspends ==
    [][\A t \in Tasks :
          (Suspended(t) /\ permits = 0)
              => (pc'[t] = "waiting" /\ result'[t] = "none")]_vars

\* C4 witness: all permits are held by others while a caller is suspended
C4_Witness ==
    /\ permits = 0
    /\ \E t \in Tasks : Suspended(t)
    /\ \E t \in Tasks : HoldsGuard(t)

\* get_connection has returned to the task: a guard or an error
Completed(t) == pc[t] \in {"holding", "failed"}

\* the task is suspended and every other task has released its guard
AloneSuspended(t) ==
    /\ Suspended(t)
    /\ \A u \in Tasks \ {t} : pc[u] = "idle"

\* C5: with max_connections = 1, a call that was suspended behind an unreleased
\* guard eventually completes (returns a guard or an error) once that guard has
\* been released.
C5_SecondCallCompletes ==
    \A t \in Tasks :
        (max_connections = 1 /\ AloneSuspended(t)) ~> Completed(t)

\* the pool's table and counter
table == <<connections, total_connections>>

\* C6: a failing get_connection returns its permit and leaves the entry table
\* and total_connections as they were: the error return comes only after a
\* miss, from the resolve or the connect phase, it gives back exactly one
\* permit, and no step of the call up to and including the error return
\* changes the table or the counter.
C6_FailureLeavesPool ==
    [][\A t \in Tasks :
          /\ (pc[t] # "failed" /\ pc'[t] = "failed")
                => /\ pc[t] \in {"resolving", "connecting"}
                   /\ permits' = permits + 1
                   /\ result'[t] \in {"DnsError", "TransportError", "InvalidScheme",
                                      "ConnectTimeout"}
          /\ (/\ pc[t] \in {"idle", "failed", "waiting", "acquired", "resolving", "connecting"}
              /\ pc'[t] \in {"waiting", "acquired", "resolving", "connecting", "failed"}
              /\ pc'[t] # pc[t])
                => table' = table]_vars

\* C6 witness: a call has failed on a transport error while the table holds an
\* entry, and every permit is back
C6_Witness ==
    /\ \E t \in Tasks : pc[t] = "failed" /\ result[t] = "TransportError"
    /\ total_connections > 0
    /\ permits = max_connections

\* an entry cleanup must evict: idle for at least idle_timeout
Stale(e, t) == ~e.in_use /\ t - e.last_used >= IdleTimeout

\* C7: right after cleanup() no entry is left that is idle for at least
\* idle_timeout, and every entry that was in_use when cleanup ran is still in
\* the list of its key, whatever its age.
C7_CleanupEvictsOnlyStaleIdle ==
    [][Cleanup =>
          /\ \A k \in DOMAIN connections' :
                \A i \in 1..Len(connections'[k]) : ~Stale(connections'[k][i], now')
          /\ \A k \in DOMAIN connections :
                \A i \in 1..Len(connections[k]) :
                    connections[k][i].in_use
                        => /\ k \in DOMAIN connections'
                           /\ \E j \in 1..Len(connections'[k]) :
                                 connections'[k][j] = connections[k][i]]_vars

\* C7 witness: cleanup can run on a table that holds both an idle entry past
\* idle_timeout and an in_use entry past idle_timeout
C7_Witness ==
    /\ lock = NoTask
    /\ \E k \in DOMAIN connections : \E i \in 1..Len(connections[k]) :
          Stale(connections[k][i], now)
    /\ \E k \in DOMAIN connections : \E i \in 1..Len(connections[k]) :
          connections[k][i].in_use /\ now - connections[k][i].last_used >= IdleTimeout

\* the entries of the table, over all keys
AllEntries(conns) ==
    {conns[k][i] : <<k, i>> \in {<<k, i>> \in (DOMAIN conns) \X (1..MaxStreams) :
                                     i <= Len(conns[k])}}

\* where the entry with this stream is: "Absent", "Idle" or "InUse"
EntryState(conns, id) ==
    IF \E e \in AllEntries(conns) : e.id = id
    THEN IF (CHOOSE e \in AllEntries(conns) : e.id = id).in_use THEN "InUse" ELSE "Idle"
    ELSE "Absent"

\* C8: each entry follows only the lifecycle Idle -> InUse (by a checkout that
\* returns a guard on that entry) -> Idle (by the release of the guard that
\* holds it, so that no unreleased guard still wraps it) -> Evicted (when idle
\* for at least idle_timeout); an entry enters the table in_use and changes
\* state or leaves the table in no other way.
C8_EntryLifecycle ==
    [][\A id \in 1..MaxStreams :
          LET a == EntryState(connections, id)
              b == EntryState(connections', id)
          IN /\ (a = "Absent" /\ b # "Absent") => b = "InUse"
             /\ (a = "Idle" /\ b = "InUse")
                   => \E t \in Tasks : /\ pc[t] = "acquired"
                                       /\ pc'[t] = "holding"
                                       /\ stream_ref'[t] = id
             /\ (a = "InUse" /\ b = "Idle")
                   => ~\E t \in Tasks : HoldsGuard(t) /\ stream_ref[t] = id
             /\ (a # "Absent" /\ b = "Absent")
                   => \E e \in AllEntries(connections) : e.id = id /\ Stale(e, now)]_vars

\* C9: a connect attempt that takes longer than connection_timeout makes
\* get_connection fail with ConnectTimeout, return the permit and add no entry.
C9_SlowConnectTimesOut ==
    [][\A t \in Tasks :
          (/\ pc[t] = "connecting"
           /\ pc'[t] # "connecting"
           /\ now - started[t] > ConnectionTimeout)
              => /\ pc'[t] = "failed"
                 /\ result'[t] = "ConnectTimeout"
                 /\ permits' = permits + 1
                 /\ table' = table]_vars

\* get_connection has ended for the task, with a guard, an error or an abort
Ended(t) == pc[t] \in {"holding", "dropping", "failed", "panicked"}

\* C10 as stated: a call with a scheme other than "http" or "https" ends with
\* InvalidScheme, whatever the resolver answers.
C10_AlwaysInvalidScheme ==
    \A t \in Tasks :
        (Ended(t) /\ ~ValidScheme(key[t].scheme))
            => (pc[t] = "failed" /\ result[t] = "InvalidScheme")

\* C10 amended: a call with a scheme other than "http" or "https" never finds an
\* entry to reuse; it fails with the resolver's error when resolution fails and
\* with InvalidScheme when resolution succeeds, and either way it returns the
\* permit and leaves the table and total_connections unchanged.
C10_InvalidSchemeAfterResolve ==
    [][\A t \in Tasks :
          ~ValidScheme(key[t].scheme) =>
             /\ (pc[t] = "acquired" /\ pc'[t] # "acquired")
                   => (pc'[t] = "resolving" /\ table' = table)
             /\ (pc[t] = "resolving" /\ pc'[t] # "resolving")
                   => \/ pc'[t] = "connecting" /\ permits' = permits /\ table' = table
                      \/ /\ pc'[t] = "failed"
                         /\ result'[t] = "DnsError"
                         /\ permits' = permits + 1
                         /\ table' = table
             /\ (pc[t] = "connecting" /\ pc'[t] # "connecting")
                   => /\ pc'[t] = "failed"
                      /\ result'[t] = "InvalidScheme"
                      /\ permits' = permits + 1
                      /\ table' = table]_vars

\* C10 witness: a call with scheme "ftp" has failed with InvalidScheme while the
\* table holds an entry, and every permit is back
C10_Witness ==
    /\ \E t \in Tasks : /\ pc[t] = "failed"
                         /\ result[t] = "InvalidScheme"
                         /\ key[t].scheme = "ftp"
    /\ total_connections > 0
    /\ permits = max_connections


\* ------------------------------------------------------------------ C11

\* C11: a close_all_connections() step leaves a table with no keys and a counter of
\* 0, so that get_stats reports zero total, idle and in-use counts, and it changes
\* neither the available permits nor the permits held by outstanding guards.
C11_CloseAllFrame ==
    [][CloseAllConnections =>
          /\ DOMAIN connections' = {}
          /\ total_connections' = 0
          /\ LET s == PoolStats(connections', total_connections', max_connections')
             IN  s.total_connections = 0 /\ s.total_idle = 0 /\ s.total_in_use = 0
          /\ permits' = permits
          /\ waiters' = waiters
          /\ \A t \in Tasks : HoldsPermit(t)' = HoldsPermit(t)
          /\ \A t \in Tasks : HoldsGuard(t)' = HoldsGuard(t)]_vars

\* the table has been emptied while a guard is out and its permit is still taken
C11_Witness ==
    /\ DOMAIN connections = {}
    /\ total_connections = 0
    /\ next_stream > 1
    /\ \E t \in Tasks : HoldsGuard(t) /\ stream_ref[t] # NoStream
    /\ permits < max_connections

\* ------------------------------------------------------------------ C12

\* C12: every get_stats() snapshot is consistent: total_idle + total_in_use =
\* total_connections, connection_count is the number of keys, and every value is the
\* one of the table state the snapshot was taken in, whatever the other tasks do.
C12_StatsConsistent ==
    stats # <<>> =>
        LET s == stats[1]
        IN  /\ s.total_idle + s.total_in_use = s.total_connections
            /\ s.connection_count = Cardinality(DOMAIN connections)
            /\ s.total_connections = total_connections
            /\ s.total_in_use = Cardinality({e \in AllEntries(connections) : e.in_use})
            /\ s.total_idle = Cardinality({e \in AllEntries(connections) : ~e.in_use})

\* a snapshot taken while another task is in the middle of get_connection, with an
\* idle and an in-use entry under two keys
C12_Witness ==
    /\ stats # <<>>
    /\ stats[1].total_idle >= 1
    /\ stats[1].total_in_use >= 1
    /\ stats[1].connection_count = 2
    /\ \E t \in Tasks : pc[t] \in {"resolving", "connecting", "appending", "refetch"}

\* ------------------------------------------------------------------ C13

\* C13: the admission semaphore keeps the pool within max connections:
\* total_connections is at most max_connections in every reachable state.
C13_TotalWithinMax ==
    total_connections <= max_connections


\* ================================================================== dns.rs
\* A buffer is a sequence of bytes; the code's offsets count from 0.  A read of
\* data[i] with i >= data.len() panics, a `?` on an Err returns ProtocolError
\* (ErrorKind::InvalidData), and a recursion that never returns overflows the
\* stack.  The outcome of a decoding function is one of
\*   "ok", "err" (ProtocolError), "panic" (index out of bounds), "overflow".

\* DnsRecordType::to_u16
ToU16(type) ==
    CASE type = "A" -> 1
      [] type = "AAAA" -> 28
      [] type = "CNAME" -> 5
      [] type = "NS" -> 2
      [] type = "MX" -> 15

\* DnsRecordType::from_u16, "None" for a code that is no record type
FromU16(value) ==
    CASE value = 1 -> "A"
      [] value = 28 -> "AAAA"
      [] value = 5 -> "CNAME"
      [] value = 2 -> "NS"
      [] value = 15 -> "MX"
      [] OTHER -> "None"

\* u16::to_be_bytes
Be16(n) == <<n \div 256, n % 256>>

\* u32::to_be_bytes
Be32(n) == <<n \div 16777216, (n \div 65536) % 256, (n \div 256) % 256, n % 256>>

\* data[i]; callers have checked i < data.len() or report the panic themselves
At(d, i) == d[i + 1]

\* data[i] can be read
InBounds(d, i) == i < Len(d)

\* u16::from_be_bytes([data[i], data[i + 1]])
U16At(d, i) == At(d, i) * 256 + At(d, i + 1)

\* u32::from_be_bytes of the four bytes at i
U32At(d, i) == ((At(d, i) * 256 + At(d, i + 1)) * 256 + At(d, i + 2)) * 256 + At(d, i + 3)

\* String::from_utf8_lossy of a label: an ASCII byte is its character, a byte
\* that belongs to no valid sequence becomes U+FFFD (multi-byte sequences
\* are not among the labels of the buffers used here)
Utf8Lossy(bytes) == [i \in 1..Len(bytes) |-> IF bytes[i] < 128 THEN bytes[i] ELSE 65533]

\* the result of parse_dns_name: Ok((name, offset)) or how it failed
NameResult(st, name, offset) == [st |-> st, name |-> name, offset |-> offset]

\* the loop of parse_dns_name from current_offset with the name read so far;
\* active holds the offsets of the parse_dns_name calls that have not returned.
\* A pointer to an offset in active starts a call that repeats an active one, so
\* the recursion never returns: the stack overflows.  A pointer's target is
\* appended to the name as it is, with no '.' before it (46 is '.').
RECURSIVE NameLoop(_, _, _, _)
NameLoop(d, current_offset, name, active) ==
    IF ~InBounds(d, current_offset) THEN NameResult("panic", <<>>, 0)
    ELSE LET len == At(d, current_offset)
         IN  IF len >= 192
             THEN IF ~InBounds(d, current_offset + 1) THEN NameResult("panic", <<>>, 0)
                  ELSE LET pointer_offset == (len % 64) * 256 + At(d, current_offset + 1)
                       IN  IF pointer_offset \in active THEN NameResult("overflow", <<>>, 0)
                           ELSE LET r == NameLoop(d, pointer_offset, <<>>,
                                                    active \cup {pointer_offset})
                                IN  IF r.st = "ok"
                                    THEN NameResult("ok", name \o r.name, current_offset + 2)
                                    ELSE r
             ELSE IF len = 0 THEN NameResult("ok", name, current_offset + 1)
             ELSE IF current_offset + 1 + len > Len(d) THEN NameResult("err", <<>>, 0)
             ELSE NameLoop(d, current_offset + 1 + len,
                           (IF name = <<>> THEN <<>> ELSE name \o <<46>>)
                               \o Utf8Lossy(SubSeq(d, current_offset + 2, current_offset + 1 + len)),
                           active)

\* parse_dns_name(data, offset)
ParseDnsName(d, offset) == NameLoop(d, offset, <<>>, {offset})


\* DnsRecordData: A(ip), AAAA(ip), CNAME(name), NS(name) or MX {preference, exchange}
RecordData(kind, ip, name, preference) ==
    [kind |-> kind, ip |-> ip, name |-> name, preference |-> preference]

\* DnsRecord
DnsRecord(name, record_type, ttl, rdata) ==
    [name |-> name, record_type |-> record_type, ttl |-> ttl, data |-> rdata]

\* the outcome of one turn of the loop of parse_records
RecordResult(st, record, offset) == [st |-> st, record |-> record, offset |-> offset]

\* a turn of the loop that did not produce a record
RecordFailed(st) == RecordResult(st, DnsRecord(<<>>, "None", 0, RecordData("None", <<>>, <<>>, 0)), 0)

\* format!("{}.{}.{}.{}", ..).parse::<IpAddr>(): the four octets
Ipv4At(d, i) == [j \in 1..4 |-> At(d, i + j - 1)]

\* the eight groups formatted with {:x}, joined with ':' and parsed: the eight
\* 16-bit groups
Ipv6At(d, i) == [j \in 1..8 |-> U16At(d, i + 2 * (j - 1))]

\* no record data: the match of parse_records returned early with st
NoData(st) == [st |-> st, data |-> RecordData("None", <<>>, <<>>, 0)]

\* the data of a CNAME, NS or MX record from the name n decoded in them
NameData(kind, n, preference) ==
    IF n.st # "ok" THEN NoData(n.st)
    ELSE [st |-> "ok", data |-> RecordData(kind, <<>>, n.name, preference)]

\* mutant of ParseData: an unrecognized type is given the placeholder data
\* A(0.0.0.0) instead of an error
ParseData_Placeholder(d, record_type, rdlength, current_offset) ==
    CASE record_type = "A" ->
            IF rdlength # 4 THEN NoData("err")
            ELSE IF ~InBounds(d, current_offset + 3) THEN NoData("panic")
            ELSE [st |-> "ok", data |-> RecordData("A", Ipv4At(d, current_offset), <<>>, 0)]
      [] record_type = "AAAA" ->
            IF rdlength # 16 THEN NoData("err")
            ELSE IF ~InBounds(d, current_offset + 15) THEN NoData("panic")
            ELSE [st |-> "ok", data |-> RecordData("AAAA", Ipv6At(d, current_offset), <<>>, 0)]
      [] record_type \in {"CNAME", "NS"} ->
            NameData(record_type, ParseDnsName(d, current_offset), 0)
      [] record_type = "MX" ->
            IF ~InBounds(d, current_offset + 1) THEN NoData("panic")
            ELSE NameData("MX", ParseDnsName(d, current_offset + 2), U16At(d, current_offset))
      [] OTHER -> [st |-> "ok", data |-> RecordData("A", <<0, 0, 0, 0>>, <<>>, 0)]

\* mutant of ParseData: the announced rdlength is not looked at, the data of an
\* A or AAAA record are read at the length of the type
ParseData_AnyLength(d, record_type, rdlength, current_offset) ==
    CASE record_type = "A" ->
            IF ~InBounds(d, current_offset + 3) THEN NoData("panic")
            ELSE [st |-> "ok", data |-> RecordData("A", Ipv4At(d, current_offset), <<>>, 0)]
      [] record_type = "AAAA" ->
            IF ~InBounds(d, current_offset + 15) THEN NoData("panic")
            ELSE [st |-> "ok", data |-> RecordData("AAAA", Ipv6At(d, current_offset), <<>>, 0)]
      [] record_type \in {"CNAME", "NS"} ->
            NameData(record_type, ParseDnsName(d, current_offset), 0)
      [] record_type = "MX" ->
            IF ~InBounds(d, current_offset + 1) THEN NoData("panic")
            ELSE NameData("MX", ParseDnsName(d, current_offset + 2), U16At(d, current_offset))
      [] OTHER -> NoData("err")

\* the record data of a record of type record_type with rdlength bytes announced
\* at current_offset, by the match of parse_records
ParseData(d, record_type, rdlength, current_offset) ==
    CASE record_type = "A" ->
            IF rdlength # 4 THEN NoData("err")
            ELSE IF ~InBounds(d, current_offset + 3) THEN NoData("panic")
            ELSE [st |-> "ok", data |-> RecordData("A", Ipv4At(d, current_offset), <<>>, 0)]
      [] record_type = "AAAA" ->
            IF rdlength # 16 THEN NoData("err")
            ELSE IF ~InBounds(d, current_offset + 15) THEN NoData("panic")
            ELSE [st |-> "ok", data |-> RecordData("AAAA", Ipv6At(d, current_offset), <<>>, 0)]
      [] record_type \in {"CNAME", "NS"} ->
            NameData(record_type, ParseDnsName(d, current_offset), 0)
      [] record_type = "MX" ->
            IF ~InBounds(d, current_offset + 1) THEN NoData("panic")
            ELSE NameData("MX", ParseDnsName(d, current_offset + 2), U16At(d, current_offset))
      [] OTHER -> NoData("err")

\* the record made of the name n, the header at n.offset and the data rd; the
\* next record starts rdlength bytes after the ten of the header
RecordOf(d, n, rd) ==
    IF rd.st # "ok" THEN RecordFailed(rd.st)
    ELSE RecordResult("ok",
                      DnsRecord(n.name, FromU16(U16At(d, n.offset)), U32At(d, n.offset + 4),
                                rd.data),
                      n.offset + 10 + U16At(d, n.offset + 8))

\* the rest of a turn of the loop of parse_records once the name n is read: the
\* ten bytes of type, class, ttl and rdlength, then the data
AfterName(d, n) ==
    IF n.st # "ok" THEN RecordFailed(n.st)
    ELSE IF ~InBounds(d, n.offset + 9) THEN RecordFailed("panic")
    ELSE RecordOf(d, n, ParseData(d, FromU16(U16At(d, n.offset)), U16At(d, n.offset + 8),
                                  n.offset + 10))

\* one turn of the loop of parse_records
ParseRecord(d, offset) == AfterName(d, ParseDnsName(d, offset))

RECURSIVE ParseRecords(_, _, _, _)

\* the loop of parse_records goes on after the turn r, count records being left
\* before it
AfterRecord(d, count, records, r) ==
    IF r.st # "ok" THEN [st |-> r.st, records |-> <<>>, offset |-> 0]
    ELSE ParseRecords(d, r.offset, count - 1, Append(records, r.record))

\* parse_records(data, offset, count), with the records read so far
ParseRecords(d, offset, count, records) ==
    IF count = 0 THEN [st |-> "ok", records |-> records, offset |-> offset]
    ELSE AfterRecord(d, count, records, ParseRecord(d, offset))

\* DnsQuestion
DnsQuestion(name, record_type, class) ==
    [name |-> name, record_type |-> record_type, class |-> class]

RECURSIVE ParseQuestions(_, _, _, _)

\* the rest of a turn of the loop over the questions once the name n is read
AfterQuestionName(d, count, questions, n) ==
    IF n.st # "ok" THEN [st |-> n.st, questions |-> <<>>, offset |-> 0]
    ELSE IF ~InBounds(d, n.offset + 3) THEN [st |-> "panic", questions |-> <<>>, offset |-> 0]
    ELSE IF FromU16(U16At(d, n.offset)) = "None"
         THEN [st |-> "err", questions |-> <<>>, offset |-> 0]
    ELSE ParseQuestions(d, n.offset + 4, count - 1,
                        Append(questions, DnsQuestion(n.name, FromU16(U16At(d, n.offset)),
                                                      U16At(d, n.offset + 2))))

\* the loop over the questions of parse_response, with the questions read so far
ParseQuestions(d, offset, count, questions) ==
    IF count = 0 THEN [st |-> "ok", questions |-> questions, offset |-> offset]
    ELSE AfterQuestionName(d, count, questions, ParseDnsName(d, offset))

\* DnsResponse, or how parse_response failed
DnsResponse(st, id, flags, questions, answers, authority, additional) ==
    [st |-> st,
     id |-> id,
     qr |-> flags >= 32768,
     opcode |-> (flags \div 2048) % 16,
     aa |-> (flags \div 1024) % 2 = 1,
     tc |-> (flags \div 512) % 2 = 1,
     rd |-> (flags \div 256) % 2 = 1,
     ra |-> (flags \div 128) % 2 = 1,
     rcode |-> flags % 16,
     questions |-> questions,
     answers |-> answers,
     authority |-> authority,
     additional |-> additional]

\* parse_response did not return a response
ResponseFailed(st) == DnsResponse(st, 0, 0, <<>>, <<>>, <<>>, <<>>)

\* parse_response after the additional section ar
AfterAdditional(d, q, an, ns, ar) ==
    IF ar.st # "ok" THEN ResponseFailed(ar.st)
    ELSE DnsResponse("ok", U16At(d, 0), U16At(d, 2), q.questions, an.records, ns.records,
                     ar.records)

\* parse_response after the authority section ns
AfterAuthority(d, q, an, ns) ==
    IF ns.st # "ok" THEN ResponseFailed(ns.st)
    ELSE AfterAdditional(d, q, an, ns, ParseRecords(d, ns.offset, U16At(d, 10), <<>>))

\* parse_response after the answer section an
AfterAnswers(d, q, an) ==
    IF an.st # "ok" THEN ResponseFailed(an.st)
    ELSE AfterAuthority(d, q, an, ParseRecords(d, an.offset, U16At(d, 8), <<>>))

\* parse_response after the questions q
AfterQuestions(d, q) ==
    IF q.st # "ok" THEN ResponseFailed(q.st)
    ELSE AfterAnswers(d, q, ParseRecords(d, q.offset, U16At(d, 6), <<>>))

\* parse_response(data)
ParseResponse(d) ==
    IF Len(d) < 12 THEN ResponseFailed("err")
    ELSE AfterQuestions(d, ParseQuestions(d, 12, U16At(d, 4), <<>>))

\* ------------------------------------------------------------------ messages
\* A domain is its sequence of characters; 97 is 'a', 98 'b', 109 'm', 46 '.'.

\* the position of the first '.' (46) of a domain that has one
FirstDot(domain) ==
    CHOOSE i \in 1..Len(domain) :
        domain[i] = 46 /\ \A j \in 1..(i - 1) : domain[j] # 46

\* domain.split('.'): the labels of a domain, "" having the one label ""
RECURSIVE Split(_, _)
Split(domain, label) ==
    IF \A i \in 1..Len(domain) : domain[i] # 46 THEN <<label \o domain>>
    ELSE <<label \o SubSeq(domain, 1, FirstDot(domain) - 1)>>
             \o Split(SubSeq(domain, FirstDot(domain) + 1, Len(domain)), <<>>)

\* the labels as create_query writes them: a length byte, `len as u8`, then the bytes
RECURSIVE EncodeLabels(_)
EncodeLabels(labels) ==
    IF labels = <<>> THEN <<>>
    ELSE <<Len(Head(labels)) % 256>> \o Head(labels) \o EncodeLabels(Tail(labels))

\* the twelve bytes of a header
Header(id, flags, qdcount, ancount, nscount, arcount) ==
    Be16(id) \o Be16(flags) \o Be16(qdcount) \o Be16(ancount) \o Be16(nscount) \o Be16(arcount)

\* a question: the name, the type and class IN
Question(domain, record_type) ==
    EncodeLabels(Split(domain, <<>>)) \o <<0>> \o Be16(ToU16(record_type)) \o Be16(1)

\* create_query(domain, record_type) with transaction id tid: flags 0x0100, one question
CreateQuery(tid, domain, record_type) ==
    Header(tid, 256, 1, 0, 0, 0) \o Question(domain, record_type)

\* a resource record as a server writes it: name, type, class IN, ttl, the
\* rdlength it announces and the data that follow
Record(name, type, ttl, rdlength, rdata) ==
    name \o Be16(type) \o Be16(1) \o Be32(ttl) \o Be16(rdlength) \o rdata

\* a compression pointer to the name of the question, at offset 12
QName == <<192, 12>>

\* the domain asked about in the messages below
DomainA == <<97>>

\* the records of a section one after the other
RECURSIVE Flatten(_)
Flatten(records) ==
    IF records = <<>> THEN <<>> ELSE Head(records) \o Flatten(Tail(records))

\* a reply to the question (DomainA, qtype) with the given flags and sections
Reply(flags, qtype, answers, authority, additional) ==
    Header(7, flags, 1, Len(answers), Len(authority), Len(additional))
        \o Question(DomainA, qtype) \o Flatten(answers) \o Flatten(authority) \o Flatten(additional)


\* two IPv4 addresses and an IPv6 address as record data
Ip1 == <<10, 0, 0, 1>>

Ip2 == <<10, 0, 0, 2>>

Ip6 == <<32, 1, 13, 184, 0, 0, 0, 0, 0, 0, 0, 0, 0, 0, 0, 1>>

\* a well-formed record of each type, owned by the question's name
RecA(ttl, ip) == Record(QName, 1, ttl, 4, ip)

RecAAAA(ttl) == Record(QName, 28, ttl, 16, Ip6)

RecCNAME(ttl) == Record(QName, 5, ttl, 4, <<1, 98>> \o QName)

RecNS(ttl) == Record(QName, 2, ttl, 4, <<1, 98>> \o QName)

RecMX(ttl) == Record(QName, 15, ttl, 6, <<0, 10, 1, 109>> \o QName)

\* an A record announcing 3 or 5 bytes and an AAAA record announcing 4, each
\* followed by as many bytes as it announces
RecAShort == Record(QName, 1, 1, 3, <<10, 0, 0>>)

RecALong == Record(QName, 1, 1, 5, <<10, 0, 0, 1, 9>>)

RecAAAAShort == Record(QName, 28, 1, 4, Ip1)

\* a record of a type from_u16 does not know
RecUnknown == Record(QName, 99, 1, 4, Ip1)

\* a record whose name is a pointer to itself: it sits right after the
\* question of a reply about DomainA, at offset 19
RecSelfPointer == Record(<<192, 19>>, 1, 1, 4, Ip1)

\* a CNAME record whose data point to the record's own name at offset 19, which
\* points to the data at offset 31
RecPointerCycle == Record(<<192, 31>>, 5, 1, 2, <<192, 19>>)

\* the bytes of well-formed replies: rcode 0 (flags 0x8180) unless said otherwise
WellFormed ==
    { Reply(33152, "A", <<RecA(1, Ip1)>>, <<>>, <<>>),
      Reply(33152, "A", <<RecA(2, Ip1), RecA(1, Ip2)>>, <<>>, <<>>),
      Reply(33152, "AAAA", <<RecAAAA(1)>>, <<>>, <<>>),
      Reply(33152, "A", <<RecCNAME(1), RecA(2, Ip2)>>, <<RecNS(1)>>, <<RecA(1, Ip1)>>),
      Reply(33152, "A", <<RecCNAME(1)>>, <<>>, <<RecA(1, Ip1)>>),
      Reply(33152, "MX", <<RecMX(1)>>, <<>>, <<RecAAAA(1)>>),
      Reply(33152, "A", <<>>, <<>>, <<>>),
      Reply(33155, "A", <<>>, <<>>, <<>>),
      Reply(33154, "A", <<RecA(1, Ip1)>>, <<>>, <<>>) }

\* the bytes of replies that carry an A or AAAA record of a wrong length, in
\* each of the three sections, first or after a good record
WrongLength ==
    { Reply(33152, "A", <<RecAShort>>, <<>>, <<>>),
      Reply(33152, "A", <<RecA(1, Ip1), RecALong>>, <<>>, <<>>),
      Reply(33152, "A", <<>>, <<RecAShort>>, <<>>),
      Reply(33152, "A", <<RecA(1, Ip1)>>, <<>>, <<RecALong>>),
      Reply(33152, "AAAA", <<RecAAAAShort>>, <<>>, <<>>),
      Reply(33152, "AAAA", <<>>, <<RecNS(1), RecAAAAShort>>, <<>>),
      Reply(33152, "A", <<RecA(1, Ip1)>>, <<>>, <<RecAAAAShort>>) }

\* the bytes of replies with an unknown record type or a pointer that leads back
\* to itself, and a header that announces a question that is a pointer to itself
Hostile ==
    { Reply(33152, "A", <<RecUnknown>>, <<>>, <<>>),
      Reply(33152, "A", <<RecSelfPointer>>, <<>>, <<>>),
      Reply(33152, "A", <<RecPointerCycle>>, <<>>, <<>>),
      Header(7, 33152, 1, 0, 0, 0) \o <<192, 12, 0, 1, 0, 1>> }

\* a record of type TXT (16) or SOA (6), which from_u16 does not know either
RecOfType(type) == Record(QName, type, 1, 4, Ip1)

\* the bytes of replies with a type code that is no DnsRecordType: in the
\* question, and in a record of each section, first or after good records
UnknownType ==
    { Header(7, 33152, 1, 1, 0, 0) \o <<1, 97, 0>> \o Be16(99) \o Be16(1) \o RecA(1, Ip1),
      Reply(33152, "A", <<RecA(1, Ip1), RecOfType(16)>>, <<>>, <<>>),
      Reply(33152, "A", <<RecA(1, Ip1)>>, <<RecOfType(6)>>, <<>>),
      Reply(33152, "A", <<RecA(1, Ip1)>>, <<RecNS(1)>>, <<RecOfType(0)>>),
      Reply(33152, "AAAA", <<>>, <<>>, <<RecOfType(255)>>) }

\* every message above
Messages == WellFormed \cup WrongLength \cup Hostile \cup UnknownType

\* what a socket can deliver: a message, or a message cut short at any length
Buffers == UNION {{SubSeq(m, 1, n) : n \in 0..Len(m)} : m \in Messages}


\* ------------------------------------------------------------------ the decoder

\* the pool as with_config(.., 1, ..) leaves it, no caller having arrived
PoolAtRest == WithConfig(1)

\* a buffer arrives to be decoded
CodecInit ==
    /\ PoolAtRest
    /\ ResolverNew
    /\ data \in Buffers
    /\ parsed = <<>>
    /\ encoded = <<>>

\* parse_response(data) runs to its end: a response, ProtocolError, a panic on an
\* index out of bounds or a stack overflow
Decode ==
    /\ parsed = <<>>
    /\ parsed' = <<ParseResponse(data)>>
    /\ UNCHANGED <<data, encoded, resolverVars, poolVars>>

\* the next buffer arrives
Receive ==
    /\ parsed # <<>>
    /\ data' \in Buffers
    /\ parsed' = <<>>
    /\ UNCHANGED <<encoded, resolverVars, poolVars>>

CodecNext == Decode \/ Receive

CodecSpec == CodecInit /\ [][CodecNext]_vars


\* ------------------------------------------------------------------ C18

\* C18: decoding never reads outside the buffer: parse_response returns
\* ProtocolError, and does not abort, when the buffer is shorter than 12 bytes or
\* when a name, label, question field, record header or record payload would run
\* past the end of the buffer.
C18_NoReadOutsideBuffer ==
    parsed # <<>> => parsed[1].st # "panic"

\* ------------------------------------------------------------------ C19

\* C19: name decoding terminates on every input: a compression pointer that
\* leads back to itself, directly or through other pointers, is rejected with
\* ProtocolError after a bounded number of jumps.
C19_NameDecodingTerminates ==
    parsed # <<>> => parsed[1].st # "overflow"

\* ------------------------------------------------------------------ C20

\* does one of the count records laid out from offset announce a wrong length:
\* type A with rdlength other than 4 or type AAAA with rdlength other than 16,
\* its name and ten header bytes inside the buffer and the records before it
\* decodable
RECURSIVE WrongLengthFrom(_, _, _)
WrongLengthFrom(d, offset, count) ==
    IF count = 0 THEN FALSE
    ELSE LET n == ParseDnsName(d, offset)
         IN  /\ n.st = "ok"
             /\ InBounds(d, n.offset + 9)
             /\ LET type == U16At(d, n.offset)
                    rdlength == U16At(d, n.offset + 8)
                IN  \/ type = 1 /\ rdlength # 4
                    \/ type = 28 /\ rdlength # 16
                    \/ /\ ParseRecord(d, offset).st = "ok"
                       /\ WrongLengthFrom(d, n.offset + 10 + rdlength, count - 1)

\* the buffer holds a header, decodable questions and, in the answer, authority
\* or additional section, an A or AAAA record of a wrong length
HasWrongLength(d) ==
    /\ Len(d) >= 12
    /\ LET q == ParseQuestions(d, 12, U16At(d, 4), <<>>)
       IN  /\ q.st = "ok"
           /\ WrongLengthFrom(d, q.offset, U16At(d, 6) + U16At(d, 8) + U16At(d, 10))

\* C20: a buffer with an A record whose rdlength is not 4 or an AAAA record whose
\* rdlength is not 16, in whichever section, makes the whole decode fail with
\* ProtocolError.
C20_WrongLengthRejected ==
    (parsed # <<>> /\ HasWrongLength(data)) => parsed[1].st = "err"

\* a decode has failed on a reply whose answer is good and whose additional
\* section holds the record of a wrong length
C20_Witness ==
    /\ parsed # <<>>
    /\ parsed[1].st = "err"
    /\ HasWrongLength(data)
    /\ U16At(data, 6) = 1 /\ U16At(data, 8) = 0 /\ U16At(data, 10) = 1
    /\ ParseRecord(data, 19).st = "ok"


\* ================================================================== the resolver
\* One DnsResolver, its calls one at a time (they take &mut self).  The network
\* is the environment: a send succeeds or fails, and the socket then delivers a
\* datagram, whatever it is, or the read fails or times out.

\* the read timeout set on the socket, in seconds
DNS_TIMEOUT == 5

Domains == {DomainA}

QueryTypes == {"A", "AAAA"}

\* rand::random::<u16>(): the id is written into the query and never read back
TransactionIds == {7, 8}

\* format!("{}:{:?}", domain, record_type)
CacheKey(domain, record_type) == <<domain, record_type>>

\* DnsCacheEntry
DnsCacheEntry(records, expires_at) == [records |-> records, expires_at |-> expires_at]

\* the datagrams the socket delivers to the resolver
Replies ==
    { Reply(33152, "A", <<RecA(1, Ip1)>>, <<>>, <<>>),
      Reply(33152, "A", <<RecA(2, Ip1), RecA(1, Ip2)>>, <<>>, <<>>),
      Reply(33152, "A", <<RecA(1, Ip1), RecA(0, Ip2)>>, <<>>, <<>>),
      Reply(33152, "AAAA", <<RecAAAA(1)>>, <<>>, <<>>),
      Reply(33152, "A", <<RecCNAME(1), RecA(2, Ip2)>>, <<RecNS(1)>>, <<RecA(1, Ip1)>>),
      Reply(33152, "A", <<RecCNAME(1)>>, <<>>, <<RecA(1, Ip1)>>),
      Reply(33155, "A", <<>>, <<>>, <<>>),
      Reply(33154, "A", <<RecA(1, Ip1)>>, <<>>, <<>>),
      Reply(33152, "A", <<RecAShort>>, <<>>, <<>>),
      Reply(33152, "A", <<RecSelfPointer>>, <<>>, <<>>),
      SubSeq(Reply(33152, "A", <<RecA(1, Ip1)>>, <<>>, <<>>), 1, 30) }

\* parse_response on each of them
Decoded == [bytes \in Replies |-> ParseResponse(bytes)]

\* what the network does during one query: the transaction id drawn, whether
\* send_to succeeds, what recv_from returns and after how many seconds
Network ==
    [tid : TransactionIds, send : {"error"}, recv : {"none"}, bytes : {<<>>}, elapsed : {0}]
        \cup [tid : TransactionIds, send : {"ok"}, recv : {"error"}, bytes : {<<>>}, elapsed : {0}]
        \cup [tid : TransactionIds, send : {"ok"}, recv : {"timeout"}, bytes : {<<>>},
              elapsed : {DNS_TIMEOUT}]
        \cup [tid : TransactionIds, send : {"ok"}, recv : {"reply"}, bytes : Replies,
              elapsed : {0, 1}]

\* cache.insert(key, entry)
Insert(c, k, entry) == [x \in DOMAIN c \cup {k} |-> IF x = k THEN entry ELSE c[x]]

\* response.answers filtered to the records of record_type
OfType(records, record_type) == SelectSeq(records, LAMBDA r : r.record_type = record_type)

\* mutant of MinTtl: the ttl of the first record stands for all
MinTtl_First(records) == IF records = <<>> THEN 300 ELSE records[1].ttl

\* records.iter().map(|r| r.ttl).min().unwrap_or(300)
MinTtl(records) ==
    IF records = <<>> THEN 300
    ELSE CHOOSE m \in {records[i].ttl : i \in 1..Len(records)} :
             \A i \in 1..Len(records) : m <= records[i].ttl

\* what a call of query leaves: its outcome, the records it returns, and the
\* cache, clock and sent datagrams after it
QueryResult(outcome, records, reply, c, clk, snt) ==
    [outcome |-> outcome, records |-> records, reply |-> reply,
     cache |-> c, clock |-> clk, sent |-> snt]

\* query returned Ok: from the cache ("hit") or from a reply ("ok")
Succeeded(outcome) == outcome \in {"hit", "ok"}

\* query did not return: it panicked or overflowed the stack
Aborted(outcome) == outcome \in {"panic", "overflow"}

\* mutant of Fresh: an entry is still served at its expires_at
Fresh_AtExpiry(c, clk, k) == k \in DOMAIN c /\ clk <= c[k].expires_at

\* cache.get(&cache_key) finds an entry and SystemTime::now() < entry.expires_at
Fresh(c, clk, k) == k \in DOMAIN c /\ clk < c[k].expires_at

\* mutant of Classify: the answers are filtered before the rcode is looked at
Classify_FilterFirst(response, record_type) ==
    IF OfType(response.answers, record_type) = <<>> THEN "not_found"
    ELSE IF response.rcode # 0 THEN "server_error"
    ELSE "ok"

\* what query makes of a decoded response: the rcode first, then the filter
Classify(response, record_type) ==
    IF response.rcode # 0 THEN "server_error"
    ELSE IF OfType(response.answers, record_type) = <<>> THEN "not_found"
    ELSE "ok"

\* mutant of CacheAfter: a reply without a record of the type is cached as well
CacheAfter_Negative(c, k, outcome, records, clk) ==
    IF outcome \in {"ok", "not_found"}
    THEN Insert(c, k, DnsCacheEntry(records, clk + MinTtl(records)))
    ELSE c

\* the cache after a decoded response: only a successful query inserts, with
\* expires_at a second reading of the clock plus the minimum ttl
CacheAfter(c, k, outcome, records, clk) ==
    IF outcome = "ok"
    THEN Insert(c, k, DnsCacheEntry(records, clk + MinTtl(records)))
    ELSE c

\* the end of query on a decoded response: the outcome of the two checks, the
\* records of the type, and the cache after them
Concluded(c, k, bytes, outcome, records, clk, snt) ==
    QueryResult(outcome, IF outcome = "ok" THEN records ELSE <<>>, bytes,
                CacheAfter(c, k, outcome, records, clk), clk, snt)

\* query once the reply bytes are decoded into response, at time clk with snt sent
AfterReply(c, k, record_type, bytes, response, clk, snt) ==
    IF response.st = "err" THEN QueryResult("protocol_error", <<>>, bytes, c, clk, snt)
    ELSE IF response.st # "ok" THEN QueryResult(response.st, <<>>, bytes, c, clk, snt)
    ELSE Concluded(c, k, bytes, Classify(response, record_type),
                   OfType(response.answers, record_type), clk, snt)

\* socket.send_to(&query, self.dns_server): the bytes and where they go
Datagram(server, bytes) == [to |-> server, bytes |-> bytes]

\* query once the cache has been found of no use: send_to, recv_from, parse_response
AfterMiss(c, clk, snt, server, domain, record_type, net) ==
    IF net.send = "error" THEN QueryResult("send_error", <<>>, <<>>, c, clk, snt)
    ELSE IF net.recv # "reply"
    THEN QueryResult(IF net.recv = "timeout" THEN "timeout" ELSE "recv_error", <<>>, <<>>, c,
                     clk + net.elapsed,
                     Append(snt, Datagram(server, CreateQuery(net.tid, domain, record_type))))
    ELSE AfterReply(c, CacheKey(domain, record_type), record_type, net.bytes,
                    Decoded[net.bytes], clk + net.elapsed,
                    Append(snt, Datagram(server, CreateQuery(net.tid, domain, record_type))))

\* query(domain, record_type) on cache c at time clk with snt sent so far and
\* dns_server being server, the network doing net
QueryCall(c, clk, snt, server, domain, record_type, net) ==
    IF Fresh(c, clk, CacheKey(domain, record_type))
    THEN QueryResult("hit", c[CacheKey(domain, record_type)].records, <<>>, c, clk, snt)
    ELSE AfterMiss(c, clk, snt, server, domain, record_type, net)

\* the network behaviours to consider for a query: one when the cache answers
\* and the network is not used, and no further datagram once MaxSent are out
NetworkFor(c, clk, snt, domain, record_type) ==
    IF Fresh(c, clk, CacheKey(domain, record_type))
    THEN {[tid |-> 7, send |-> "error", recv |-> "none", bytes |-> <<>>, elapsed |-> 0]}
    ELSE IF Len(snt) >= MaxSent THEN {net \in Network : net.send = "error"}
    ELSE {net \in Network : clk + net.elapsed <= MaxClock}

\* the resolver has not panicked: its caller, or the mutex around it, is intact
Alive == ~Aborted(last.outcome)


\* a caller runs query(domain, record_type) to its end
Query ==
    /\ Alive
    /\ \E domain \in Domains, record_type \in QueryTypes :
          \E net \in NetworkFor(cache, clock, sent, domain, record_type) :
             \E r \in {QueryCall(cache, clock, sent, dns_server, domain, record_type, net)} :
                /\ cache' = r.cache
                /\ clock' = r.clock
                /\ sent' = r.sent
                /\ last' = [op |-> "query", domain |-> domain, type |-> record_type,
                            a |-> "none", aaaa |-> "none",
                            reply |-> r.reply, reply6 |-> <<>>,
                            outcome |-> r.outcome, records |-> r.records, ip |-> <<>>,
                            server |-> ""]
    /\ UNCHANGED <<dns_server, codecVars, poolVars>>

\* what resolve_ip returns after the A query r4 and, when it was made, the AAAA
\* query r6: the address of the first record of the first query that returned Ok
\* with a record of its own type in front
ResolveResult(r4, r6) ==
    IF Aborted(r4.outcome) THEN [outcome |-> r4.outcome, records |-> <<>>, ip |-> <<>>]
    ELSE IF Succeeded(r4.outcome) /\ r4.records[1].data.kind = "A"
    THEN [outcome |-> "ok", records |-> r4.records, ip |-> r4.records[1].data.ip]
    ELSE IF Aborted(r6.outcome) THEN [outcome |-> r6.outcome, records |-> <<>>, ip |-> <<>>]
    ELSE IF Succeeded(r6.outcome) /\ r6.records[1].data.kind = "AAAA"
    THEN [outcome |-> "ok", records |-> r6.records, ip |-> r6.records[1].data.ip]
    ELSE [outcome |-> "not_found", records |-> <<>>, ip |-> <<>>]

\* the A query of resolve_ip returned an error: the AAAA query is made
Second(r4) == ~Aborted(r4.outcome) /\ ~Succeeded(r4.outcome)

\* a caller runs resolve_ip(domain) to its end: the A query, and the AAAA query
\* when the A query returned an error
ResolveIp ==
    /\ Alive
    /\ \E domain \in Domains :
          \E net4 \in NetworkFor(cache, clock, sent, domain, "A") :
             \E r4 \in {QueryCall(cache, clock, sent, dns_server, domain, "A", net4)} :
                \E net6 \in IF Second(r4)
                            THEN NetworkFor(r4.cache, r4.clock, r4.sent, domain, "AAAA")
                            ELSE {net4} :
                   \E r6 \in {IF Second(r4)
                              THEN QueryCall(r4.cache, r4.clock, r4.sent, dns_server, domain,
                                             "AAAA", net6)
                              ELSE QueryResult("none", <<>>, <<>>, r4.cache, r4.clock, r4.sent)} :
                      \E res \in {ResolveResult(r4, r6)} :
                         /\ cache' = r6.cache
                         /\ clock' = r6.clock
                         /\ sent' = r6.sent
                         /\ last' = [op |-> "resolve_ip", domain |-> domain, type |-> "none",
                                     a |-> r4.outcome, aaaa |-> r6.outcome,
                                     reply |-> r4.reply, reply6 |-> r6.reply,
                                     outcome |-> res.outcome, records |-> res.records,
                                     ip |-> res.ip, server |-> ""]
    /\ UNCHANGED <<dns_server, codecVars, poolVars>>

\* clear_cache()
ClearCache ==
    /\ Alive
    /\ cache # EmptyMap
    /\ cache' = EmptyMap
    /\ UNCHANGED <<clock, sent, last, dns_server, codecVars, poolVars>>

\* the names set_dns_server is called with, and those of them that
\* to_socket_addrs turns into an address
ServerNames == {"8.8.8.8", "1.1.1.1", "no.such.host"}
Resolvable == {"8.8.8.8", "1.1.1.1"}

\* mutant of SetDnsServer: the cache is emptied when the server changes
SetDnsServer_ClearsCache ==
    /\ Alive
    /\ \E name \in ServerNames :
          /\ dns_server' = IF name \in Resolvable THEN SocketAddr(name) ELSE dns_server
          /\ cache' = IF name \in Resolvable THEN EmptyMap ELSE cache
          /\ last' = [NoCall EXCEPT !.op = "set_dns_server", !.server = name,
                                    !.outcome = IF name \in Resolvable THEN "ok"
                                                ELSE "invalid_input"]
    /\ UNCHANGED <<clock, sent, codecVars, poolVars>>

\* set_dns_server(name): the address is resolved first, and an error returns
\* before self.dns_server is assigned
SetDnsServer ==
    /\ Alive
    /\ \E name \in ServerNames :
          /\ dns_server' = IF name \in Resolvable THEN SocketAddr(name) ELSE dns_server
          /\ last' = [NoCall EXCEPT !.op = "set_dns_server", !.server = name,
                                    !.outcome = IF name \in Resolvable THEN "ok"
                                                ELSE "invalid_input"]
    /\ UNCHANGED <<cache, clock, sent, codecVars, poolVars>>

\* a second passes between two calls
DnsTick ==
    /\ clock < MaxClock
    /\ clock' = clock + 1
    /\ UNCHANGED <<cache, sent, last, dns_server, codecVars, poolVars>>

DnsInit ==
    /\ PoolAtRest
    /\ ResolverNew
    /\ CodecIdle

DnsNext == Query \/ ResolveIp \/ ClearCache \/ SetDnsServer \/ DnsTick

DnsSpec == DnsInit /\ [][DnsNext]_vars


\* ------------------------------------------------------------------ C14

\* this step is a call of query(domain, record_type) running to its end: only a
\* call changes last or sent, and it leaves its own name in last
QueryStep(domain, record_type) ==
    /\ last' # last \/ sent' # sent
    /\ last'.op = "query"
    /\ last'.domain = domain
    /\ last'.type = record_type

\* the question of a datagram: what follows its transaction id
Asked(datagram) == SubSeq(datagram, 3, Len(datagram))

C15_ResolveIpPrefersA ==
    last.op = "resolve_ip" =>
        /\ Succeeded(last.a) =>
              /\ last.aaaa = "none"
              /\ last.outcome = "ok"
              /\ last.records[1].record_type = "A"
              /\ last.ip = last.records[1].data.ip
              /\ Len(last.ip) = 4
        /\ ~Succeeded(last.a) =>
              /\ last.aaaa # "none"
              /\ Succeeded(last.aaaa) =>
                    /\ last.outcome = "ok"
                    /\ last.records[1].record_type = "AAAA"
                    /\ last.ip = last.records[1].data.ip
                    /\ Len(last.ip) = 8
              /\ ~Succeeded(last.aaaa) => last.outcome = "not_found"
        /\ last.outcome = "not_found" <=> (~Succeeded(last.a) /\ ~Succeeded(last.aaaa))

\* ------------------------------------------------------------------ C16

\* C16: on a cache miss, query classifies the decoded reply in this order: a
\* non-zero rcode fails with ServerError; otherwise the answers are filtered to the
\* requested type and an empty result fails with NotFound; otherwise exactly the
\* records of the requested type of the answer section, in their order, are
\* returned and cached.
C16_ClassificationOrder ==
    [][\A domain \in Domains, record_type \in QueryTypes :
          (QueryStep(domain, record_type) /\ last'.reply # <<>>
              /\ ParseResponse(last'.reply).st = "ok") =>
              LET response == ParseResponse(last'.reply)
                  wanted == SelectSeq(response.answers,
                                      LAMBDA r : r.record_type = record_type)
                  k == CacheKey(domain, record_type)
              IN  IF response.rcode # 0 THEN last'.outcome = "server_error"
                  ELSE IF wanted = <<>> THEN last'.outcome = "not_found"
                  ELSE /\ last'.outcome = "ok"
                       /\ last'.records = wanted
                       /\ k \in DOMAIN cache'
                       /\ cache'[k].records = wanted]_vars

\* a query has returned the one A record of an answer section that also holds a
\* CNAME record, the A record of the additional section left out
C16_Witness ==
    /\ last.op = "query"
    /\ last.type = "A"
    /\ last.outcome = "ok"
    /\ last.reply # <<>>
    /\ Len(ParseResponse(last.reply).answers) = 2
    /\ Len(ParseResponse(last.reply).additional) = 1
    /\ Len(last.records) = 1
    /\ CacheKey(last.domain, "A") \in DOMAIN cache

\* ------------------------------------------------------------------ C17

\* query did not return Ok
Failed(outcome) ==
    outcome \in {"send_error", "recv_error", "timeout", "protocol_error",
                 "server_error", "not_found"}

\* C17: no negative caching: a query that fails, on a send or receive error or a
\* timeout, a decode error, a non-zero rcode or no record of the requested type,
\* leaves the cache unchanged and with no live entry for its key, so the next
\* query for the same domain and type goes to the socket again; the same holds
\* of the queries of a resolve_ip that fails.
C17_NoNegativeCaching ==
    [][/\ \A domain \in Domains, record_type \in QueryTypes :
             (QueryStep(domain, record_type)
                 /\ (Failed(last'.outcome) \/ Aborted(last'.outcome))) =>
                 /\ cache' = cache
                 /\ ~(/\ CacheKey(domain, record_type) \in DOMAIN cache'
                      /\ clock' < cache'[CacheKey(domain, record_type)].expires_at)
       /\ (last'.op = "resolve_ip" /\ (last' # last \/ sent' # sent)
              /\ last'.outcome = "not_found") => cache' = cache]_vars

\* a query has failed for want of a record of its type after a datagram for the
\* same question had gone out before, and nothing is cached for the question
C17_Witness ==
    /\ last.op = "query"
    /\ last.outcome = "not_found"
    /\ Len(sent) = 2
    /\ Asked(sent[1].bytes) = Asked(sent[2].bytes)
    /\ CacheKey(last.domain, last.type) \notin DOMAIN cache


\* ------------------------------------------------------------------ C21

\* the type codes of DnsRecordType
KnownCodes == {1, 2, 5, 15, 28}

\* does one of the count questions laid out from offset carry a type code that is
\* none of KnownCodes, its name, type and class inside the buffer
RECURSIVE UnknownQuestionFrom(_, _, _)
UnknownQuestionFrom(d, offset, count) ==
    IF count = 0 THEN FALSE
    ELSE \E n \in {ParseDnsName(d, offset)} :
            /\ n.st = "ok"
            /\ InBounds(d, n.offset + 3)
            /\ \/ U16At(d, n.offset) \notin KnownCodes
               \/ UnknownQuestionFrom(d, n.offset + 4, count - 1)

\* does one of the count records laid out from offset carry a type code that is
\* none of KnownCodes, its name and ten header bytes inside the buffer and the
\* records before it decodable
RECURSIVE UnknownRecordFrom(_, _, _)
UnknownRecordFrom(d, offset, count) ==
    IF count = 0 THEN FALSE
    ELSE \E n \in {ParseDnsName(d, offset)} :
            /\ n.st = "ok"
            /\ InBounds(d, n.offset + 9)
            /\ \/ U16At(d, n.offset) \notin KnownCodes
               \/ /\ ParseRecord(d, offset).st = "ok"
                  /\ UnknownRecordFrom(d, n.offset + 10 + U16At(d, n.offset + 8), count - 1)

\* the buffer holds a header and a question or a record, in whichever section,
\* whose type code is not a DnsRecordType
HasUnknownType(d) ==
    /\ Len(d) >= 12
    /\ \/ UnknownQuestionFrom(d, 12, U16At(d, 4))
       \/ \E q \in {ParseQuestions(d, 12, U16At(d, 4), <<>>)} :
             /\ q.st = "ok"
             /\ UnknownRecordFrom(d, q.offset, U16At(d, 6) + U16At(d, 8) + U16At(d, 10))

\* the records of all three sections of a response
AllRecords(response) == response.answers \o response.authority \o response.additional

SetStep(name) ==
    /\ last' # last \/ dns_server' # dns_server
    /\ last'.op = "set_dns_server"
    /\ last'.server = name

\* C22: set_dns_server(name) that succeeds makes the resolved address the
\* destination, one that fails leaves the previous destination in effect, and
\* either way the cache is as it was; every datagram a later call sends goes to
\* the address configured when the call is made.
C22_SetDnsServerFrame ==
    [][/\ \A name \in ServerNames :
             SetStep(name) =>
                 /\ cache' = cache
                 /\ sent' = sent
                 /\ last'.outcome = "ok" => dns_server' = SocketAddr(name)
                 /\ last'.outcome # "ok" => dns_server' = dns_server
       /\ last'.op # "set_dns_server" => dns_server' = dns_server
       /\ \A i \in (Len(sent) + 1)..Len(sent') : sent'[i].to = dns_server]_vars

\* a first query went to the first server and filled the cache, set_dns_server
\* then succeeded, and a later query that missed went to the new address with
\* the first answer still cached
C22_Witness ==
    /\ Len(sent) = 2
    /\ sent[1].to = SocketAddr(DefaultServer)
    /\ sent[2].to = SocketAddr("1.1.1.1")
    /\ dns_server = SocketAddr("1.1.1.1")
    /\ last.op = "query"
    /\ last.outcome = "ok"
    /\ Cardinality(DOMAIN cache) = 2


\* ------------------------------------------------------------------ C23

\* this step is the release task spawned for a guard on key k running to its end
ReleaseStep(k) ==
    /\ BagIn(k, released)
    /\ released' = released (-) SetToBag({k})

\* i is the first entry of the list that is marked in_use
IsFirstInUse(entries, i) ==
    /\ i \in 1..Len(entries)
    /\ entries[i].in_use
    /\ \A j \in 1..(i - 1) : ~entries[j].in_use

\* C23: the release task of a guard flips exactly one entry: the first entry of
\* the key's list marked in_use becomes idle with last_used the time of the
\* release, and every other entry, every other key and total_connections are as
\* they were; with the key absent or no entry of it in_use the table is unchanged.
C23_ReleaseFlipsOne ==
    [][\A k \in ConnectionKey :
          ReleaseStep(k) =>
              /\ total_connections' = total_connections
              /\ DOMAIN connections' = DOMAIN connections
              /\ \A x \in DOMAIN connections : x # k => connections'[x] = connections[x]
              /\ (\A i \in 1..Len(EntriesOf(connections, k)) :
                      ~IsFirstInUse(EntriesOf(connections, k), i))
                    => connections' = connections
              /\ \A i \in 1..Len(EntriesOf(connections, k)) :
                    IsFirstInUse(connections[k], i) =>
                        /\ Len(connections'[k]) = Len(connections[k])
                        /\ connections'[k][i] = [id |-> connections[k][i].id,
                                                 in_use |-> FALSE, last_used |-> now]
                        /\ \A j \in 1..Len(connections[k]) :
                              j # i => connections'[k][j] = connections[k][j]]_vars

\* a release has flipped the first of two entries of a key and left the second,
\* still in_use, alone
C23_Witness ==
    \E k \in DOMAIN connections :
        /\ Len(connections[k]) = 2
        /\ ~connections[k][1].in_use
        /\ connections[k][1].last_used = now
        /\ now > 0
        /\ connections[k][2].in_use
        /\ connections[k][2].last_used < now
        /\ released = EmptyBag


\* ------------------------------------------------------------------ C24

\* the guard of task t is on key k and wraps the entry at index i of its list
Wraps(t, k, i) ==
    /\ key[t] = k
    /\ k \in DOMAIN connections
    /\ i \in 1..Len(connections[k])
    /\ connections[k][i].id = stream_ref[t]

\* C24: the release task knows the key only.  When task u is dropping its guard
\* on key k while task t holds an unreleased guard on the entry that is first
\* in_use in the list of k, and u's own entry stands behind it, the release
\* marks t's entry idle, t still holding its guard, and leaves u's own entry
\* marked in_use.
C24_ReleaseFlipsAnothersEntry ==
    [][\A k \in ConnectionKey :
          ReleaseStep(k) =>
              \A t, u \in Tasks : \A i, j \in 1..MaxStreams :
                  (/\ t # u
                   /\ HoldsGuard(t) /\ Wraps(t, k, i)
                   /\ pc[u] = "dropping" /\ Wraps(u, k, j)
                   /\ IsFirstInUse(connections[k], i)
                   /\ i < j
                   /\ connections[k][j].in_use)
                      => /\ pc'[t] = "holding"
                         /\ stream_ref'[t] = connections'[k][i].id
                         /\ ~connections'[k][i].in_use
                         /\ stream_ref'[u] = connections'[k][j].id
                         /\ connections'[k][j].in_use]_vars

\* the release spawned by u's drop has run: the entry t's unreleased guard wraps
\* is idle, and the entry u's guard wrapped is still marked in_use
C24_Witness ==
    \E k \in DOMAIN connections : \E t, u \in Tasks : \E i, j \in 1..MaxStreams :
        /\ t # u
        /\ HoldsGuard(t) /\ Wraps(t, k, i)
        /\ pc[u] = "dropping" /\ Wraps(u, k, j)
        /\ i # j
        /\ ~connections[k][i].in_use
        /\ connections[k][j].in_use
        /\ released = EmptyBag


\* ------------------------------------------------------------------ C25

\* C25: the drop of a guard first schedules the release task and changes neither
\* the table nor the permits; it then returns the permit, with the scheduled
\* flip applied or not: the return of the permit waits for no release task and
\* changes no entry.
C25_PermitReturnedAfterSpawn ==
    [][\A t \in Tasks :
          /\ (pc[t] = "holding" /\ pc'[t] # "holding")
                => /\ pc'[t] = "dropping"
                   /\ released' = released (+) SetToBag({key[t]})
                   /\ permits' = permits
                   /\ table' = table
          /\ (pc[t] = "dropping" /\ pc'[t] # "dropping")
                => /\ permits' = permits + 1
                   /\ released' = released
                   /\ table' = table]_vars

\* with a single permit: t has dropped its guard and the permit is back, the
\* release task has not run and t's entry is still marked in_use; u took the
\* permit for the same key, missed, and holds a guard on a second connection
C25_Witness ==
    \E k \in DOMAIN connections : \E t, u \in Tasks :
        /\ max_connections = 1
        /\ pc[t] = "idle"
        /\ BagIn(k, released)
        /\ HoldsGuard(u) /\ key[u] = k
        /\ Len(connections[k]) = 2
        /\ connections[k][1].in_use
        /\ connections[k][2].in_use
        /\ stream_ref[u] = connections[k][2].id
        /\ total_connections = 2


\* ------------------------------------------------------------------ C26

\* entry i of the list is idle and younger than idle_timeout, and no entry in
\* front of it is
IsFirstIdle(entries, i, t) ==
    /\ i \in 1..Len(entries)
    /\ ~entries[i].in_use /\ t - entries[i].last_used < IdleTimeout
    /\ \A j \in 1..(i - 1) :
          entries[j].in_use \/ t - entries[j].last_used >= IdleTimeout

\* task t leaves the scan of get_connection in this step
ScanStep(t) == pc[t] = "acquired" /\ pc'[t] # "acquired"

\* C26: when the scan finds an idle entry of the key younger than idle_timeout,
\* the call returns a guard on the first such entry in list order, that entry
\* becomes in_use with last_used the time of the scan, the call goes through
\* no resolution and no connect, and no entry is added; otherwise the scan
\* hands out nothing and changes nothing, so an idle entry at or past
\* idle_timeout is never handed out.
C26_CheckoutReusesFirstIdle ==
    [][\A t \in Tasks :
          ScanStep(t) =>
              /\ total_connections' = total_connections
              /\ next_stream' = next_stream
              /\ permits' = permits
              /\ DOMAIN connections' = DOMAIN connections
              /\ \A x \in DOMAIN connections : x # key[t] => connections'[x] = connections[x]
              /\ (\A i \in 1..MaxStreams : ~IsFirstIdle(EntriesOf(connections, key[t]), i, now))
                    => /\ pc'[t] = "resolving"
                       /\ connections' = connections
              /\ \A i \in 1..MaxStreams :
                    IsFirstIdle(EntriesOf(connections, key[t]), i, now) =>
                        /\ pc'[t] = "holding"
                        /\ result'[t] = "guard"
                        /\ stream_ref'[t] = connections[key[t]][i].id
                        /\ Len(connections'[key[t]]) = Len(connections[key[t]])
                        /\ connections'[key[t]][i] = [id |-> connections[key[t]][i].id,
                                                      in_use |-> TRUE, last_used |-> now]
                        /\ \A j \in 1..Len(connections[key[t]]) :
                              j # i => connections'[key[t]][j] = connections[key[t]][j]]_vars

\* a checkout has taken the first of two idle entries of the key: the guard is on
\* the first entry, marked in_use at the present time, and the second is idle
\* and still young
C26_Witness ==
    \E k \in DOMAIN connections : \E t \in Tasks :
        /\ HoldsGuard(t) /\ key[t] = k
        /\ Len(connections[k]) = 2
        /\ connections[k][1].in_use
        /\ connections[k][1].last_used = now
        /\ stream_ref[t] = connections[k][1].id
        /\ ~connections[k][2].in_use
        /\ now - connections[k][2].last_used < IdleTimeout
        /\ total_connections = 2


\* ------------------------------------------------------------------ C27

\* C27: a miss whose resolution and connect succeeded adds, under one hold of
\* the pool lock, 1 to total_connections and one entry, in_use, with the new
\* stream, at the end of the key's list; the entries that were there, the other
\* keys' lists and the counter are otherwise as they were, and nothing else
\* changes the table while the lock is held; the resolution and the connect
\* before it change neither.
C27_MissAppendsOne ==
    [][\A t \in Tasks :
          /\ (pc[t] \in {"resolving", "connecting"} /\ pc'[t] # pc[t]) => table' = table
          /\ (pc[t] = "appending" /\ pc'[t] # "appending")
                => /\ pc'[t] = "pushing"
                   /\ total_connections' = total_connections + 1
                   /\ connections' = connections
          /\ (pc[t] = "pushing" /\ pc'[t] = "pushing") => table' = table
          /\ (pc[t] = "pushing" /\ pc'[t] # "pushing")
                => /\ pc'[t] = "refetch"
                   /\ total_connections' = total_connections
                   /\ DOMAIN connections' = DOMAIN connections \cup {key[t]}
                   /\ \A x \in DOMAIN connections :
                         x # key[t] => connections'[x] = connections[x]
                   /\ Len(connections'[key[t]]) = Len(EntriesOf(connections, key[t])) + 1
                   /\ \A i \in 1..Len(EntriesOf(connections, key[t])) :
                         connections'[key[t]][i] = connections[key[t]][i]
                   /\ connections'[key[t]][Len(connections'[key[t]])]
                         = [id |-> stream_ref[t], in_use |-> TRUE, last_used |-> now]]_vars

\* a miss has just appended its entry behind the one that was there
C27_Witness ==
    \E t \in Tasks :
        /\ pc[t] = "refetch"
        /\ key[t] \in DOMAIN connections
        /\ Len(connections[key[t]]) = 2
        /\ connections[key[t]][2] = [id |-> stream_ref[t], in_use |-> TRUE, last_used |-> now]
        /\ connections[key[t]][1].id # stream_ref[t]
        /\ total_connections = 2


\* ------------------------------------------------------------------ C28

\* C28: cleanup() takes from total_connections exactly the number of entries it
\* removes from the lists, and afterwards no key maps to an empty list: a key
\* is gone exactly when none of its entries was kept.
C28_CleanupCountsAndPrunes ==
    [][Cleanup =>
          /\ total_connections'
                = total_connections - (EntryCount(connections) - EntryCount(connections'))
          /\ EntryCount(connections') <= EntryCount(connections)
          /\ DOMAIN connections' \subseteq DOMAIN connections
          /\ \A k \in DOMAIN connections' : connections'[k] # <<>>
          /\ \A k \in DOMAIN connections :
                k \notin DOMAIN connections'
                    => \A i \in 1..Len(connections[k]) : Stale(connections[k][i], now)]_vars

\* a state only cleanup leads to: u holds the guard it got on the first entry of
\* the key, which t's release marked idle and cleanup has since evicted; t's own
\* entry, never released, is the only one left and the only one counted
C28_Witness ==
    \E k \in DOMAIN connections : \E t, u \in Tasks :
        /\ lock = NoTask
        /\ t # u
        /\ pc[t] = "idle"
        /\ HoldsGuard(u) /\ key[u] = k /\ stream_ref[u] = 1
        /\ released = EmptyBag
        /\ Len(connections[k]) = 1
        /\ connections[k][1].id = 2
        /\ connections[k][1].in_use
        /\ total_connections = 1
        /\ Cardinality(DOMAIN connections) = 1


\* ------------------------------------------------------------------ C29

\* the positions of the list whose entries cleanup at time t has to keep
KeptPositions(entries, t) ==
    {i \in 1..Len(entries) : entries[i].in_use \/ t - entries[i].last_used < IdleTimeout}

\* the position of the entry with this stream in the list, 0 when it is not there
PositionOf(entries, id) ==
    IF \E i \in 1..Len(entries) : entries[i].id = id
    THEN CHOOSE i \in 1..Len(entries) : entries[i].id = id
    ELSE 0

\* C29: cleanup() keeps every entry that is in_use and every idle entry younger
\* than idle_timeout: each is still in the list of its key with in_use and
\* last_used as they were, the kept entries stand in their original order and
\* nothing else is in the lists; no admission permit and no waiter changes.
C29_CleanupKeepsTheRest ==
    [][Cleanup =>
          /\ permits' = permits
          /\ waiters' = waiters
          /\ \A k \in DOMAIN connections :
                /\ Len(EntriesOf(connections', k))
                      = Cardinality(KeptPositions(connections[k], now))
                /\ \A i \in KeptPositions(connections[k], now) :
                      /\ PositionOf(EntriesOf(connections', k), connections[k][i].id) # 0
                      /\ connections'[k][PositionOf(connections'[k], connections[k][i].id)]
                            = connections[k][i]
                /\ \A i, j \in KeptPositions(connections[k], now) :
                      i < j => PositionOf(connections'[k], connections[k][i].id)
                                   < PositionOf(connections'[k], connections[k][j].id)]_vars

\* a state only cleanup leads to: t is dropping the guard on the second entry of
\* the key and its release has run, marking the first entry idle; cleanup has
\* evicted that one and kept t's entry, in_use, with its last_used as it was
C29_Witness ==
    \E k \in DOMAIN connections : \E t, u \in Tasks :
        /\ lock = NoTask
        /\ t # u
        /\ pc[t] = "dropping" /\ key[t] = k /\ stream_ref[t] = 2
        /\ HoldsGuard(u) /\ key[u] = k /\ stream_ref[u] = 1
        /\ released = EmptyBag
        /\ connections[k] = <<[id |-> 2, in_use |-> TRUE, last_used |-> 0]>>
        /\ now >= IdleTimeout


\* ------------------------------------------------------------------ C30

\* the task is suspended on the semaphore, on the blocking resolver call (the
\* only place the resolver lock is taken) or on the connect call
Waits(t) == pc[t] \in {"waiting", "resolving", "connecting"}

\* the holder of the pool lock is inside the append block, where its next step
\* needs nothing but the lock it holds
LockDiscipline ==
    /\ lock \in Tasks \cup {NoTask}
    /\ \A t \in Tasks : lock = t => pc[t] = "pushing" /\ ~Waits(t)
    /\ \A t \in Tasks : Waits(t) => lock # t

\* C30: the pool lock is never held by a task that waits for a permit, for the
\* resolver or for the connect call, and so never together with the resolver
\* lock; whoever holds it can go on and free it; the table and the counter
\* change only in a step that takes the free lock or is the holder's own, and
\* the lock passes from a holder to nobody but the free state.
C30_LockDiscipline ==
    /\ []LockDiscipline
    /\ [][/\ table' # table =>
                \/ lock = NoTask
                \/ \E t \in Tasks : lock = t /\ pc[t] = "pushing" /\ pc'[t] = "refetch"
          /\ lock # NoTask =>
                \/ lock' = lock
                \/ lock' = NoTask /\ pc[lock] = "pushing" /\ pc'[lock] = "refetch"]_vars

\* the lock is held inside the append block while the other caller is in the
\* resolver and a release task waits for the lock
C30_Witness ==
    \E t, u \in Tasks :
        /\ lock = t
        /\ pc[t] = "pushing"
        /\ pc[u] = "resolving"
        /\ BagIn(key[t], released)
        /\ total_connections = 2
        /\ Len(EntriesOf(connections, key[t])) = 1


\* ------------------------------------------------------------------ C31

\* m is the least ttl among the records
IsLeastTtl(records, m) ==
    /\ \E i \in 1..Len(records) : records[i].ttl = m
    /\ \A i \in 1..Len(records) : m <= records[i].ttl

\* C31: a query that succeeds from a reply stores, under the key of its domain
\* and type and under no other, the records it returns with expires_at the
\* time after the reply plus the least ttl among them; a query served from the
\* cache returns records whose least ttl is not 0, an entry made of a record
\* with ttl 0 being expired from the moment it is stored.
C31_ExpiryIsReplyTimePlusMinTtl ==
    [][\A domain \in Domains, record_type \in QueryTypes :
          QueryStep(domain, record_type) =>
              /\ last'.outcome = "ok" =>
                    /\ CacheKey(domain, record_type) \in DOMAIN cache'
                    /\ last'.records # <<>>
                    /\ cache'[CacheKey(domain, record_type)].records = last'.records
                    /\ IsLeastTtl(last'.records,
                                  cache'[CacheKey(domain, record_type)].expires_at - clock')
                    /\ DOMAIN cache' = DOMAIN cache \cup {CacheKey(domain, record_type)}
                    /\ \A k \in DOMAIN cache :
                          k # CacheKey(domain, record_type) => cache'[k] = cache[k]
              /\ last'.outcome = "hit" =>
                    /\ \A i \in 1..Len(last'.records) : last'.records[i].ttl > 0
                    /\ clock < cache[CacheKey(domain, record_type)].expires_at]_vars

\* a second query for a question has gone to the socket again and stored records
\* whose least ttl is 0: the entry expires at the time it was stored
C31_Witness ==
    /\ last.op = "query"
    /\ last.outcome = "ok"
    /\ Len(last.records) = 2
    /\ IsLeastTtl(last.records, 0)
    /\ CacheKey(last.domain, last.type) \in DOMAIN cache
    /\ cache[CacheKey(last.domain, last.type)].expires_at = clock
    /\ clock > 0
    /\ Len(sent) = 2
    /\ Asked(sent[1].bytes) = Asked(sent[2].bytes)


\* ------------------------------------------------------------------ C32

\* the labels laid out from offset o, joined by dots after the name read so far,
\* and the offset of the byte that ends them: a zero byte or a pointer
RECURSIVE LabelsFrom(_, _, _)
LabelsFrom(d, o, name) ==
    IF At(d, o) = 0 \/ At(d, o) >= 192 THEN [name |-> name, end |-> o]
    ELSE LabelsFrom(d, o + 1 + At(d, o),
                    (IF name = <<>> THEN <<>> ELSE name \o <<46>>)
                        \o Utf8Lossy(SubSeq(d, o + 2, o + 1 + At(d, o))))

\* the offset a pointer at offset o refers to: its low 14 bits
PointerTarget(d, o) == (At(d, o) % 64) * 256 + At(d, o + 1)

\* the labels w laid out at an offset end in a pointer
EndsInPointer(d, w) == w.name # <<>> /\ At(d, w.end) >= 192

\* what the name made of the labels w and the pointer behind them stands for: the
\* labels, a dot, and the name at the pointer's offset
Spliced(d, w) == w.name \o <<46>> \o ParseDnsName(d, PointerTarget(d, w.end)).name

\* the names that can be read off the buffer, each as it stands uncompressed
UncompressedNames(d) ==
    {IF EndsInPointer(d, LabelsFrom(d, o, <<>>)) THEN Spliced(d, LabelsFrom(d, o, <<>>))
     ELSE ParseDnsName(d, o).name :
        o \in {x \in 0..(Len(d) - 1) : ParseDnsName(d, x).st = "ok"}}

\* C32: a name of one or more labels followed by a compression pointer decodes
\* to the labels joined by dots, a dot, and the name at the pointer's offset,
\* with the returned offset just after the two bytes of the pointer; and the
\* name in the data of every decoded CNAME, NS or MX record is a name of the
\* buffer as it stands uncompressed.
C32_PointerNameSpliced ==
    parsed # <<>> =>
        /\ \A o \in 0..(Len(data) - 1) :
              ParseDnsName(data, o).st = "ok" =>
                  \A w \in {LabelsFrom(data, o, <<>>)} :
                      EndsInPointer(data, w) =>
                          /\ ParseDnsName(data, o).name = Spliced(data, w)
                          /\ ParseDnsName(data, o).offset = w.end + 2
        /\ parsed[1].st = "ok" =>
              \A i \in 1..Len(AllRecords(parsed[1])) :
                  AllRecords(parsed[1])[i].data.kind \in {"CNAME", "NS", "MX"}
                      => AllRecords(parsed[1])[i].data.name \in UncompressedNames(data)


\* ------------------------------------------------------------------ C33

\* the five variants of DnsRecordType
RecordTypes == {"A", "NS", "CNAME", "MX", "AAAA"}

\* a label of n bytes
LabelOf(n) == [i \in 1..n |-> 97]

\* the domains create_query is called with: one label, two labels, no byte at
\* all, a trailing dot, and a label of 63, 255 and 256 bytes before a second one
EncodedDomains ==
    { <<97>>, <<97, 46, 98>>, <<>>, <<97, 46>>,
      LabelOf(63) \o <<46, 98>>, LabelOf(255) \o <<46, 98>>, LabelOf(256) \o <<46, 98>> }

\* the values rand::random::<u16>() is taken to return
EncodedIds == {0, 7, 258, 65535}

\* create_query(domain, record_type) returns: the call and its bytes are kept
Encode ==
    /\ \E tid \in EncodedIds, domain \in EncodedDomains, record_type \in RecordTypes :
          encoded' = <<[tid |-> tid, domain |-> domain, record_type |-> record_type,
                       bytes |-> CreateQuery(tid, domain, record_type)]>>
    /\ UNCHANGED <<data, parsed, resolverVars, poolVars>>

EncodeInit ==
    /\ PoolAtRest
    /\ ResolverNew
    /\ CodecIdle

EncodeSpec == EncodeInit /\ [][Encode]_vars

\* the type codes of the wire format
TypeCode(record_type) ==
    CASE record_type = "A" -> 1
      [] record_type = "NS" -> 2
      [] record_type = "CNAME" -> 5
      [] record_type = "MX" -> 15
      [] record_type = "AAAA" -> 28

\* each label preceded by its length
RECURSIVE LengthPrefixed(_)
LengthPrefixed(labels) ==
    IF labels = <<>> THEN <<>>
    ELSE <<Len(Head(labels))>> \o Head(labels) \o LengthPrefixed(Tail(labels))

\* C33: create_query returns the 12-byte header (the id, flags 0x0100, one
\* question, no other record: six big-endian 16-bit words), then every
\* dot-separated label of the domain behind one byte that is the length of the
\* label, then a zero byte, the type code and class 1 as big-endian words.
C33_QueryLayout ==
    encoded # <<>> =>
        /\ \A i \in 1..Len(encoded[1].bytes) : encoded[1].bytes[i] \in 0..255
        /\ encoded[1].bytes
              = <<encoded[1].tid \div 256, encoded[1].tid % 256, 1, 0, 0, 1, 0, 0, 0, 0, 0, 0>>
                    \o LengthPrefixed(Split(encoded[1].domain, <<>>))
                    \o <<0>>
                    \o <<TypeCode(encoded[1].record_type) \div 256,
                          TypeCode(encoded[1].record_type) % 256, 0, 1>>


\* ------------------------------------------------------------------ C34

\* C34: the number of entries marked in_use never exceeds max_connections.
C34_InUseWithinMax ==
    InUseCount(connections) <= max_connections


\* ------------------------------------------------------------------ C35

\* C35: on the miss path the guard get_connection returns wraps the stream of
\* the entry this call appended: the stream the call opened is the one the
\* guard is on when the call returns.
C35_GuardWrapsOwnEntry ==
    [][\A t \in Tasks :
          (pc[t] = "refetch" /\ pc'[t] = "holding") => stream_ref'[t] = stream_ref[t]]_vars


\* ------------------------------------------------------------------ C36

\* C36: get_connection never aborts on the miss path: whenever a call that has
\* appended its entry takes the pool lock again, its key is still in the table
\* with a last entry, and the call ends with a guard.
C36_MissPathNeverAborts ==
    [][\A t \in Tasks :
          (pc[t] = "refetch" /\ pc'[t] # "refetch")
              => /\ EntriesOf(connections, key[t]) # <<>>
                 /\ pc'[t] = "holding"]_vars


\* ------------------------------------------------------------------ C37

\* the number of permits held by calls in progress and by unreleased guards
HeldPermits == Cardinality({t \in Tasks : HoldsPermit(t)})

\* C37: permits are conserved: the available permits plus the permits held by
\* get_connection calls in progress and by unreleased guards always equal
\* max_connections; each guard release and each failed call returns exactly one
\* permit; with no call in progress and no guard outstanding all
\* max_connections permits are available.
C37_PermitsConserved ==
    /\ [](permits + HeldPermits = max_connections)
    /\ []((HeldPermits = 0) => permits = max_connections)
    /\ [][\A t \in Tasks :
            (HoldsPermit(t) /\ ~HoldsPermit(t)') => permits' = permits + 1]_vars

\* C37 witness: one call has failed and returned its permit, a guard was
\* released before, and the other caller holds a guard again
C37_Witness ==
    /\ max_connections = 2
    /\ permits = 1
    /\ released # EmptyBag
    /\ \E t \in Tasks : pc[t] = "failed"
    /\ \E t \in Tasks : pc[t] = "holding"


\* ------------------------------------------------------------------ C38

\* every guard has been released, no get_connection call is in progress and
\* every scheduled release task has run
Settled ==
    /\ \A t \in Tasks : pc[t] \in {"idle", "failed", "panicked"}
    /\ released = EmptyBag

\* C38: once every guard has been released, no call is in progress and every
\* scheduled release task has run, no entry is marked in_use.
C38_NoEntryStranded ==
    Settled => InUseCount(connections) = 0

\* C38 witness: the pool has settled after two checkouts whose releases have
\* both run, with a close_all_connections or cleanup in between or not; two
\* entries are in the table and both are idle
C38_Witness ==
    /\ Settled
    /\ next_stream = 3
    /\ total_connections = 2
    /\ EntryCount(connections) = 2


\* ------------------------------------------------------------------ C39

\* the guard task u is dropping was obtained before a close_all_connections():
\* its entry is no longer in the table, and no time has passed in which cleanup
\* could have evicted it (an entry is evicted only when idle_timeout old)
ObtainedBeforeReset(u) ==
    /\ pc[u] = "dropping"
    /\ now < IdleTimeout
    /\ \A e \in AllEntries(connections) : e.id # stream_ref[u]

\* C39: the release of a guard obtained before a close_all_connections() call
\* leaves the table unchanged, entries created for the same key after the
\* reset and held by other guards included.
C39_StaleReleaseLeavesTable ==
    [][\A k \in ConnectionKey : \A u \in Tasks :
          (/\ ReleaseStep(k)
           /\ released = SetToBag({k})
           /\ key[u] = k
           /\ ObtainedBeforeReset(u))
              => table' = table]_vars


\* ------------------------------------------------------------------ C40

\* the transaction id of a datagram: its first two bytes
TransactionId(datagram) == U16At(datagram, 0)

\* the question name of a datagram that carries the question of query: the
\* bytes between the header and the question's type and class
QuestionName(datagram, query) == SubSeq(datagram, 13, Len(query) - 4)

\* C40: every record set query returns or caches comes from the reply to the
\* datagram this same call sent: the datagram a successful call took its
\* records from carries the transaction id and the question name of the query
\* the call sent.
C40_ReplyAnswersOwnQuery ==
    [][\A domain \in Domains, record_type \in QueryTypes :
          (QueryStep(domain, record_type) /\ last'.outcome = "ok" /\ sent' # sent)
              => /\ TransactionId(last'.reply) = TransactionId(sent'[Len(sent')].bytes)
                 /\ QuestionName(last'.reply, sent'[Len(sent')].bytes)
                        = QuestionName(sent'[Len(sent')].bytes, sent'[Len(sent')].bytes)]_vars

====
